---------------------------- MODULE Spec2Model ----------------------------
(***************************************************************************)
(* Property-listing service: the storage layer (MemStorage and            *)
(* MongoStorage, both implementing IStorage) and the HTTP routes on top   *)
(* of it, with the Redis result cache of the cached routes.               *)
(*                                                                         *)
(* Encodings.                                                              *)
(*   - A JavaScript string is a sequence of one-character strings.        *)
(*   - An optional value (undefined / null / absent key) is a set with at *)
(*     most one element: {} is absent, {v} is present.                    *)
(*   - A Map<number, T> and a Mongo collection are sequences in insertion *)
(*     order of [key, doc]: key is the Map key (MemStorage) or stands for *)
(*     the immutable _id (MongoStorage); doc is the stored object.        *)
(*   - Dates are integers (ticks of the clock variable now).              *)
(***************************************************************************)
EXTENDS Integers, Sequences, FiniteSets, TLC

(***************************************************************************)
(* Bounds of the model.                                                    *)
(***************************************************************************)
\* largest id the shared counter hands out
MaxId == 4
\* most users the register route is allowed to create
MaxUsers == 2
\* most property records held at once
MaxProps == 1
\* the clock stops advancing here
MaxTime == 2
\* most property records held at once in QuerySpec
MaxQueryProps == 3
\* most favorite records held at once
MaxFavs == 2
\* most recommendation records held at once
MaxRecs == 1

(***************************************************************************)
(* Generic helpers.                                                        *)
(***************************************************************************)
Some(v) == {v}
None == {}
The(o) == CHOOSE v \in o : TRUE

Min(S) == CHOOSE x \in S : \A y \in S : x <= y
Max(S) == CHOOSE x \in S : \A y \in S : x >= y

\* the elements of seq at the indices in keep, in order
RECURSIVE SelectIdx(_, _, _)
SelectIdx(seq, keep, i) ==
    IF i > Len(seq) THEN <<>>
    ELSE IF i \in keep THEN <<seq[i]>> \o SelectIdx(seq, keep, i + 1)
    ELSE SelectIdx(seq, keep, i + 1)

Range(seq) == {seq[i] : i \in DOMAIN seq}

\* Array.prototype.slice(start, end) for 0 <= start <= end
Slice(seq, start, end) ==
    IF start >= Len(seq) THEN <<>>
    ELSE SubSeq(seq, start + 1, IF end > Len(seq) THEN Len(seq) ELSE end)

\* Math.ceil(a / b) for a >= 0, b > 0
CeilDiv(a, b) == (a + b - 1) \div b

\* { ...base, ...over }: object spread, later keys win
Spread(base, over) ==
    [f \in (DOMAIN base) \cup (DOMAIN over) |->
        IF f \in DOMAIN over THEN over[f] ELSE base[f]]

(***************************************************************************)
(* Strings.                                                                *)
(***************************************************************************)
UpperChars == <<"A","B","C","D","E","F","G","H","I","J","K","L","M",
                "N","O","P","Q","R","S","T","U","V","W","X","Y","Z">>
LowerChars == <<"a","b","c","d","e","f","g","h","i","j","k","l","m",
                "n","o","p","q","r","s","t","u","v","w","x","y","z">>
DigitChars == <<"0","1","2","3","4","5","6","7","8","9">>

\* String.prototype.toLowerCase, one character
ToLowerChar(c) ==
    IF \E i \in DOMAIN UpperChars : UpperChars[i] = c
    THEN LowerChars[CHOOSE i \in DOMAIN UpperChars : UpperChars[i] = c]
    ELSE c

toLowerCase(s) == [i \in DOMAIN s |-> ToLowerChar(s[i])]

\* String.prototype.includes
includes(s, t) ==
    \E i \in 0..(Len(s) - Len(t)) : SubSeq(s, i + 1, i + Len(t)) = t

\* String.prototype.trim (spaces only)
RECURSIVE TrimLeft(_)
TrimLeft(s) ==
    IF s # <<>> /\ Head(s) = " " THEN TrimLeft(Tail(s)) ELSE s
RECURSIVE TrimRight(_)
TrimRight(s) ==
    IF s # <<>> /\ s[Len(s)] = " " THEN TrimRight(SubSeq(s, 1, Len(s) - 1)) ELSE s
trim(s) == TrimRight(TrimLeft(s))

\* new RegExp(pattern, 'i').test(s) for patterns of literal characters and
\* the wildcard "." (an unanchored, case-insensitive search)
RegExpTest(pattern, s) ==
    \E i \in 0..(Len(s) - Len(pattern)) :
        \A j \in 1..Len(pattern) :
            \/ pattern[j] = "."
            \/ ToLowerChar(pattern[j]) = ToLowerChar(s[i + j])

DigitValue(c) == (CHOOSE i \in DOMAIN DigitChars : DigitChars[i] = c) - 1

\* parseFloat of a string of decimal digits
RECURSIVE parseFloat(_)
parseFloat(s) ==
    IF s = <<>> THEN 0
    ELSE 10 * parseFloat(SubSeq(s, 1, Len(s) - 1)) + DigitValue(s[Len(s)])

\* the position of a character in the binary collation of strings
CharCode(c) ==
    IF \E i \in DOMAIN DigitChars : DigitChars[i] = c
    THEN 48 + DigitValue(c)
    ELSE IF \E i \in DOMAIN UpperChars : UpperChars[i] = c
    THEN 64 + (CHOOSE i \in DOMAIN UpperChars : UpperChars[i] = c)
    ELSE IF \E i \in DOMAIN LowerChars : LowerChars[i] = c
    THEN 96 + (CHOOSE i \in DOMAIN LowerChars : LowerChars[i] = c)
    ELSE 32

\* s sorts strictly before t when both are compared as strings
RECURSIVE StringLess(_, _)
StringLess(s, t) ==
    IF t = <<>> THEN FALSE
    ELSE IF s = <<>> THEN TRUE
    ELSE IF CharCode(Head(s)) # CharCode(Head(t))
    THEN CharCode(Head(s)) < CharCode(Head(t))
    ELSE StringLess(Tail(s), Tail(t))


(***************************************************************************)
(* State.                                                                  *)
(***************************************************************************)
VARIABLES
    impl,             \* which IStorage implementation is behind `storage`
    users,            \* users collection
    properties,       \* properties collection
    favorites,        \* favorites collection
    recommendations,  \* recommendations collection
    currentId,        \* the shared id counter
    cache,            \* the Redis cache of the cached routes: key -> value
    now,              \* the clock read by new Date()
    deleted,          \* history: [user, id] for each property id deleted while
                      \* user held a favorite of it or had been recommended it
    race              \* the requests in flight when handlers interleave at
                      \* their awaits, and the count of writes done

vars == <<impl, users, properties, favorites, recommendations, currentId,
          cache, now, deleted, race>>

\* the collections and the counter of one storage object
Store ==
    [users |-> users, properties |-> properties, favorites |-> favorites,
     recommendations |-> recommendations, currentId |-> currentId]

EmptyStore ==
    [users |-> <<>>, properties |-> <<>>, favorites |-> <<>>,
     recommendations |-> <<>>, currentId |-> 1]

(***************************************************************************)
(* Map<number, T> (MemStorage) and Collection (MongoStorage).              *)
(***************************************************************************)
Docs(coll) == [i \in DOMAIN coll |-> coll[i].doc]

\* Map.get
MapGet(coll, k) ==
    LET hit == {i \in DOMAIN coll : coll[i].key = k}
    IN  IF hit = {} THEN None ELSE Some(coll[Min(hit)].doc)

\* Map.set: a present key keeps its place, a new key goes last
MapSet(coll, k, d) ==
    IF \E i \in DOMAIN coll : coll[i].key = k
    THEN [i \in DOMAIN coll |->
            IF coll[i].key = k THEN [key |-> k, doc |-> d] ELSE coll[i]]
    ELSE Append(coll, [key |-> k, doc |-> d])

\* Map.delete
MapDelete(coll, k) ==
    SelectIdx(coll, {i \in DOMAIN coll : coll[i].key # k}, 1)

\* Collection.insertOne
InsertOne(coll, oid, d) == Append(coll, [key |-> oid, doc |-> d])

\* the first document among the matching indices (findOne), if any
FirstDoc(coll, hit) ==
    IF hit = {} THEN None ELSE Some(coll[Min(hit)])

\* Collection.deleteOne: the first matching document goes
DeleteFirst(coll, hit) ==
    IF hit = {} THEN coll
    ELSE SelectIdx(coll, (DOMAIN coll) \ {Min(hit)}, 1)

(***************************************************************************)
(* Users.                                                                  *)
(***************************************************************************)
\* bcrypt works on the first 72 bytes of the password and ignores the rest
BcryptMaxBytes == 72

\* bcrypt.hash(password, 10) and bcrypt.compare
bcryptHash(password) ==
    <<"$2b$10$", SubSeq(password, 1, Min({Len(password), BcryptMaxBytes}))>>
bcryptCompare(password, hash) == hash = bcryptHash(password)

Mem_getUser(S, id) == MapGet(S.users, id)

Mongo_getUser(S, id) ==
    LET hit == FirstDoc(S.users, {i \in DOMAIN S.users : S.users[i].doc.id = id})
    IN  IF hit = None THEN None ELSE Some(The(hit).doc)

getUser(S, id) ==
    IF impl = "Mem" THEN Mem_getUser(S, id) ELSE Mongo_getUser(S, id)

\* both implementations return the first user whose email is exactly `email`
getUserByEmail(S, email) ==
    LET hit == FirstDoc(S.users,
                   {i \in DOMAIN S.users : S.users[i].doc.email = email})
    IN  IF hit = None THEN None ELSE Some(The(hit).doc)

\* createUser: takes the next id, stores the hashed password
createUser(S, insertUser) ==
    LET id == S.currentId
        user == [id |-> id, name |-> insertUser.name,
                 email |-> insertUser.email,
                 password |-> bcryptHash(insertUser.password)]
    IN  [ret |-> user,
         S |-> [S EXCEPT !.currentId = id + 1,
                         !.users = IF impl = "Mem"
                                   THEN MapSet(S.users, id, user)
                                   ELSE InsertOne(S.users, id, user)]]

OwnerOf(user) == [id |-> user.id, name |-> user.name, email |-> user.email]

(***************************************************************************)
(* Properties: single lookups and writes.                                  *)
(***************************************************************************)
sOwner == <<"O","w","n","e","r">>
sDefaultColor == <<"#","6","a","b","4","5","e">>

\* x || null for an optional string: undefined, null and "" all give null
OrNull(o) == IF o = None \/ The(o) = <<>> THEN None ELSE o

\* MongoStorage.mapProperty: the document's fields, with the two defaults
mapProperty(doc) ==
    [doc EXCEPT !.listedBy = IF OrNull(doc.listedBy) = None
                             THEN Some(sOwner) ELSE doc.listedBy,
                !.colorTheme = IF OrNull(doc.colorTheme) = None
                               THEN Some(sDefaultColor) ELSE doc.colorTheme]

Mem_getProperty(S, id) ==
    LET property == MapGet(S.properties, id)
    IN  IF property = None THEN None
        ELSE LET owner == MapGet(S.users, The(property).createdBy)
             IN  IF owner = None THEN None
                 ELSE Some([property |-> The(property),
                            owner |-> OwnerOf(The(owner))])

Mongo_getProperty(S, id) ==
    LET property == FirstDoc(S.properties,
            {i \in DOMAIN S.properties : S.properties[i].doc.id = id})
    IN  IF property = None THEN None
        ELSE LET owner == Mongo_getUser(S, The(property).doc.createdBy)
             IN  IF owner = None THEN None
                 ELSE Some([property |-> mapProperty(The(property).doc),
                            owner |-> OwnerOf(The(owner))])

getProperty(S, id) ==
    IF impl = "Mem" THEN Mem_getProperty(S, id) ELSE Mongo_getProperty(S, id)

\* the record createProperty builds from the caller's data
NewProperty(insertProperty, id, createdBy, t) ==
    Spread(insertProperty,
        [id |-> id, createdBy |-> createdBy, createdAt |-> t, updatedAt |-> t,
         isVerified |-> (insertProperty.isVerified = Some(TRUE)),
         amenities |-> OrNull(insertProperty.amenities),
         tags |-> OrNull(insertProperty.tags),
         rating |-> OrNull(insertProperty.rating),
         availableFrom |-> insertProperty.availableFrom])

Mem_createProperty(S, insertProperty, createdBy, t) ==
    LET id == S.currentId
        property == NewProperty(insertProperty, id, createdBy, t)
    IN  [ret |-> property,
         S |-> [S EXCEPT !.currentId = id + 1,
                         !.properties = MapSet(S.properties, id, property)]]

Mongo_createProperty(S, insertProperty, createdBy, t) ==
    LET id == S.currentId
        property == [NewProperty(insertProperty, id, createdBy, t) EXCEPT
                        !.listedBy = IF OrNull(insertProperty.listedBy) = None
                                     THEN Some(sOwner)
                                     ELSE insertProperty.listedBy]
    IN  [ret |-> mapProperty(property),
         S |-> [S EXCEPT !.currentId = id + 1,
                         !.properties = InsertOne(S.properties, id, property)]]

createProperty(S, insertProperty, createdBy, t) ==
    IF impl = "Mem" THEN Mem_createProperty(S, insertProperty, createdBy, t)
    ELSE Mongo_createProperty(S, insertProperty, createdBy, t)

\* updateProperty: ret is None for null, thrown is TRUE when the driver throws
Mem_updateProperty(S, id, updateProperty, userId, t) ==
    LET property == MapGet(S.properties, id)
    IN  IF property = None \/ The(property).createdBy # userId
        THEN [ret |-> None, thrown |-> FALSE, S |-> S]
        ELSE LET updatedProperty ==
                     Spread(Spread(The(property), updateProperty),
                            [updatedAt |-> t])
             IN  [ret |-> Some(updatedProperty), thrown |-> FALSE,
                  S |-> [S EXCEPT !.properties =
                            MapSet(S.properties, id, updatedProperty)]]

\* findOne({id, createdBy}) picks the document read; updateOne({id}, {$set})
\* writes the first document with that id, and $set carries the _id of the
\* document read: writing it onto another document throws (immutable _id)
Mongo_updateProperty(S, id, updateProperty, userId, t) ==
    LET P == S.properties
        existingProperty ==
            FirstDoc(P, {i \in DOMAIN P : P[i].doc.id = id
                                          /\ P[i].doc.createdBy = userId})
    IN  IF existingProperty = None
        THEN [ret |-> None, thrown |-> FALSE, S |-> S]
        ELSE LET updatedProperty ==
                     Spread(Spread(The(existingProperty).doc, updateProperty),
                            [updatedAt |-> t])
                 target == Min({i \in DOMAIN P : P[i].doc.id = id})
             IN  IF P[target].key # The(existingProperty).key
                 THEN [ret |-> None, thrown |-> TRUE, S |-> S]
                 ELSE [ret |-> Some(mapProperty(updatedProperty)),
                       thrown |-> FALSE,
                       S |-> [S EXCEPT !.properties =
                                 [P EXCEPT ![target].doc = updatedProperty]]]

updateProperty(S, id, upd, userId, t) ==
    IF impl = "Mem" THEN Mem_updateProperty(S, id, upd, userId, t)
    ELSE Mongo_updateProperty(S, id, upd, userId, t)

\* deleteProperty: removes the property's favorites and recommendations first
Mem_deleteProperty(S, id, userId) ==
    LET property == MapGet(S.properties, id)
    IN  IF property = None \/ The(property).createdBy # userId
        THEN [ret |-> FALSE, S |-> S]
        ELSE [ret |-> TRUE,
              S |-> [S EXCEPT
                !.favorites = SelectIdx(S.favorites,
                    {i \in DOMAIN S.favorites :
                        S.favorites[i].doc.propertyId # id}, 1),
                !.recommendations = SelectIdx(S.recommendations,
                    {i \in DOMAIN S.recommendations :
                        S.recommendations[i].doc.propertyId # id}, 1),
                !.properties = MapDelete(S.properties, id)]]

\* a deleteProperty that does not look at the owner: deleteOne({id})
Mongo_deleteProperty_anyUser(S, id, userId) ==
    LET P == S.properties
        hit == {i \in DOMAIN P : P[i].doc.id = id}
    IN  [ret |-> hit # {},
         S |-> [S EXCEPT !.properties = DeleteFirst(P, hit)]]

\* deleteOne({id, createdBy}): the property document alone
Mongo_deleteProperty(S, id, userId) ==
    LET P == S.properties
        hit == {i \in DOMAIN P : P[i].doc.id = id /\ P[i].doc.createdBy = userId}
    IN  [ret |-> hit # {},
         S |-> [S EXCEPT !.properties = DeleteFirst(P, hit)]]

deleteProperty(S, id, userId) ==
    IF impl = "Mem" THEN Mem_deleteProperty(S, id, userId)
    ELSE Mongo_deleteProperty(S, id, userId)

(***************************************************************************)
(* Favorites and recommendations.                                          *)
(***************************************************************************)
\* addFavorite (MemStorage): an existing favorite of the pair is returned
Mem_addFavorite(S, userId, propertyId) ==
    LET F == S.favorites
        existing == FirstDoc(F, {i \in DOMAIN F :
                        F[i].doc.userId = userId
                        /\ F[i].doc.propertyId = propertyId})
    IN  IF existing # None THEN [ret |-> The(existing).doc, S |-> S]
        ELSE LET id == S.currentId
                 favorite == [id |-> id, userId |-> userId,
                              propertyId |-> propertyId]
             IN  [ret |-> favorite,
                  S |-> [S EXCEPT !.currentId = id + 1,
                                  !.favorites = MapSet(F, id, favorite)]]

\* addFavorite (MongoStorage): always inserts
Mongo_addFavorite(S, userId, propertyId) ==
    LET id == S.currentId
        favorite == [id |-> id, userId |-> userId, propertyId |-> propertyId]
    IN  [ret |-> favorite,
         S |-> [S EXCEPT !.currentId = id + 1,
                         !.favorites = InsertOne(S.favorites, id, favorite)]]

addFavorite(S, userId, propertyId) ==
    IF impl = "Mem" THEN Mem_addFavorite(S, userId, propertyId)
    ELSE Mongo_addFavorite(S, userId, propertyId)

\* a removeFavorite that looks for the property alone, whoever holds it
removeFavorite_anyUser(S, userId, propertyId) ==
    LET F == S.favorites
        hit == {i \in DOMAIN F : F[i].doc.propertyId = propertyId}
    IN  [ret |-> hit # {},
         S |-> [S EXCEPT !.favorites = DeleteFirst(F, hit)]]

\* removeFavorite: the first favorite of the pair goes (Map.delete of its key,
\* deleteOne of the filter)
removeFavorite(S, userId, propertyId) ==
    LET F == S.favorites
        hit == {i \in DOMAIN F : F[i].doc.userId = userId
                                 /\ F[i].doc.propertyId = propertyId}
    IN  [ret |-> hit # {},
         S |-> [S EXCEPT !.favorites = DeleteFirst(F, hit)]]

\* the properties getProperty resolves for the ids, in order; others are skipped
RECURSIVE ResolveAll(_, _)
ResolveAll(S, propertyIds) ==
    IF propertyIds = <<>> THEN <<>>
    ELSE LET p == getProperty(S, Head(propertyIds))
         IN  (IF p = None THEN <<>> ELSE <<The(p)>>)
             \o ResolveAll(S, Tail(propertyIds))

getUserFavorites(S, userId) ==
    LET F == S.favorites
        mine == SelectIdx(F, {i \in DOMAIN F : F[i].doc.userId = userId}, 1)
    IN  ResolveAll(S, [i \in DOMAIN mine |-> mine[i].doc.propertyId])

\* a createRecommendation that takes its id before it looks the recipient up
Mem_createRecommendation_idFirst(S, fromUserId, toUserEmail, propertyId) ==
    LET id == S.currentId
        T == [S EXCEPT !.currentId = id + 1]
        toUser == getUserByEmail(S, toUserEmail)
    IN  IF toUser = None THEN [ret |-> None, S |-> T]
        ELSE IF MapGet(S.properties, propertyId) = None
        THEN [ret |-> None, S |-> T]
        ELSE LET recommendation ==
                     [id |-> id, fromUserId |-> fromUserId,
                      toUserId |-> The(toUser).id, propertyId |-> propertyId]
             IN  [ret |-> Some(recommendation),
                  S |-> [T EXCEPT !.recommendations =
                            MapSet(S.recommendations, id, recommendation)]]

\* createRecommendation (MemStorage): the recipient and the property must exist
Mem_createRecommendation(S, fromUserId, toUserEmail, propertyId) ==
    LET toUser == getUserByEmail(S, toUserEmail)
    IN  IF toUser = None THEN [ret |-> None, S |-> S]
        ELSE IF MapGet(S.properties, propertyId) = None
        THEN [ret |-> None, S |-> S]
        ELSE LET id == S.currentId
                 recommendation ==
                     [id |-> id, fromUserId |-> fromUserId,
                      toUserId |-> The(toUser).id, propertyId |-> propertyId]
             IN  [ret |-> Some(recommendation),
                  S |-> [S EXCEPT !.currentId = id + 1,
                                  !.recommendations =
                                      MapSet(S.recommendations, id, recommendation)]]

\* createRecommendation (MongoStorage): the recipient alone is looked up
Mongo_createRecommendation(S, fromUserId, toUserEmail, propertyId) ==
    LET toUser == getUserByEmail(S, toUserEmail)
    IN  IF toUser = None THEN [ret |-> None, S |-> S]
        ELSE LET id == S.currentId
                 recommendation ==
                     [id |-> id, fromUserId |-> fromUserId,
                      toUserId |-> The(toUser).id, propertyId |-> propertyId]
             IN  [ret |-> Some(recommendation),
                  S |-> [S EXCEPT !.currentId = id + 1,
                                  !.recommendations =
                                      InsertOne(S.recommendations, id, recommendation)]]

createRecommendation(S, fromUserId, toUserEmail, propertyId) ==
    IF impl = "Mem"
    THEN Mem_createRecommendation(S, fromUserId, toUserEmail, propertyId)
    ELSE Mongo_createRecommendation(S, fromUserId, toUserEmail, propertyId)

getUserRecommendations(S, userId) ==
    LET R == S.recommendations
        mine == SelectIdx(R, {i \in DOMAIN R : R[i].doc.toUserId = userId}, 1)
    IN  ResolveAll(S, [i \in DOMAIN mine |-> mine[i].doc.propertyId])

(***************************************************************************)
(* getProperties: filter, sort, paginate, attach owners.                   *)
(*                                                                         *)
(* A PropertyFilters value is a record of optional fields.  A price is a   *)
(* string (the decimal column of the schema, parsed with parseFloat by     *)
(* MemStorage); areaSqFt, bedrooms and bathrooms are numbers.              *)
(***************************************************************************)
sAll == <<"a","l","l">>
sAny == <<"a","n","y">>

\* a JavaScript value used as a condition: undefined, "" and 0 are falsy
TruthyStr(o) == o # None /\ The(o) # <<>>
TruthyNum(o) == o # None /\ The(o) # 0

\* --- MemStorage: the chain of filters, as one predicate per property
Mem_matches(p, filters) ==
    /\ filters.priceMin # None => parseFloat(p.price) >= The(filters.priceMin)
    /\ filters.priceMax # None => parseFloat(p.price) <= The(filters.priceMax)
    /\ filters.areaMin # None => p.areaSqFt >= The(filters.areaMin)
    /\ filters.areaMax # None => p.areaSqFt <= The(filters.areaMax)
    /\ filters.bedrooms # None => p.bedrooms >= The(filters.bedrooms)
    /\ filters.bathrooms # None => p.bathrooms >= The(filters.bathrooms)
    /\ TruthyStr(filters.city) =>
          includes(toLowerCase(p.city), toLowerCase(The(filters.city)))
    /\ TruthyStr(filters.state) =>
          includes(toLowerCase(p.state), toLowerCase(The(filters.state)))
    /\ TruthyStr(filters.country) =>
          includes(toLowerCase(p.country), toLowerCase(The(filters.country)))
    /\ TruthyStr(filters.type) => p.type = The(filters.type)
    /\ TruthyStr(filters.furnished) => p.furnished = The(filters.furnished)
    /\ TruthyStr(filters.listingType) => p.listingType = The(filters.listingType)
    /\ filters.isVerified # None => p.isVerified = The(filters.isVerified)
    /\ TruthyStr(filters.amenities) =>
          /\ p.amenities # None
          /\ includes(toLowerCase(The(p.amenities)),
                      toLowerCase(The(filters.amenities)))
    /\ TruthyStr(filters.tags) =>
          /\ p.tags # None
          /\ includes(toLowerCase(The(p.tags)), toLowerCase(The(filters.tags)))
    /\ filters.availableFromBefore # None =>
          /\ p.availableFrom # None
          /\ The(p.availableFrom) <= The(filters.availableFromBefore)
    /\ filters.availableFromAfter # None =>
          /\ p.availableFrom # None
          /\ The(p.availableFrom) >= The(filters.availableFromAfter)

\* the comparator of Array.prototype.sort says a goes before b
Mem_before(sort, a, b) ==
    IF sort = None THEN b.createdAt < a.createdAt
    ELSE CASE The(sort) = "price_asc" -> parseFloat(a.price) < parseFloat(b.price)
           [] The(sort) = "price_desc" -> parseFloat(b.price) < parseFloat(a.price)
           [] The(sort) = "created_asc" -> a.createdAt < b.createdAt
           [] The(sort) = "created_desc" -> b.createdAt < a.createdAt
           [] OTHER -> FALSE

\* --- MongoStorage: the query document, as one predicate per document.
\* A $gte / $lte with a number matches a field only when the field holds a
\* number: the price field holds a string.
BsonNumberFields == {"areaSqFt", "bedrooms", "bathrooms"}

MongoGte(doc, field, bound) ==
    bound # None => (field \in BsonNumberFields /\ doc[field] >= The(bound))

MongoLte(doc, field, bound) ==
    bound # None => (field \in BsonNumberFields /\ doc[field] <= The(bound))

\* a string filter that is set, is not blank and is not the sentinel
MongoSet(o, sentinel) ==
    TruthyStr(o) /\ trim(The(o)) # <<>> /\ The(o) # sentinel

Mongo_matches(doc, filters) ==
    /\ MongoGte(doc, "price", filters.priceMin)
    /\ MongoLte(doc, "price", filters.priceMax)
    /\ MongoGte(doc, "areaSqFt", filters.areaMin)
    /\ MongoLte(doc, "areaSqFt", filters.areaMax)
    /\ MongoGte(doc, "bedrooms", filters.bedrooms)
    /\ MongoGte(doc, "bathrooms", filters.bathrooms)
    /\ MongoSet(filters.city, sAll) =>
          RegExpTest(trim(The(filters.city)), doc.city)
    /\ MongoSet(filters.state, sAll) =>
          RegExpTest(trim(The(filters.state)), doc.state)
    /\ MongoSet(filters.country, sAll) =>
          RegExpTest(trim(The(filters.country)), doc.country)
    /\ MongoSet(filters.type, sAll) => doc.type = The(filters.type)
    /\ MongoSet(filters.furnished, sAny) => doc.furnished = The(filters.furnished)
    /\ MongoSet(filters.listingType, sAll) =>
          doc.listingType = The(filters.listingType)
    /\ filters.isVerified # None => doc.isVerified = The(filters.isVerified)
    /\ (TruthyStr(filters.amenities) /\ trim(The(filters.amenities)) # <<>>) =>
          /\ doc.amenities # None
          /\ RegExpTest(trim(The(filters.amenities)), The(doc.amenities))
    /\ (TruthyStr(filters.tags) /\ trim(The(filters.tags)) # <<>>) =>
          /\ doc.tags # None
          /\ RegExpTest(trim(The(filters.tags)), The(doc.tags))
    /\ filters.availableFromBefore # None =>
          /\ doc.availableFrom # None
          /\ The(doc.availableFrom) <= The(filters.availableFromBefore)
    /\ filters.availableFromAfter # None =>
          /\ doc.availableFrom # None
          /\ The(doc.availableFrom) >= The(filters.availableFromAfter)

\* the sort document says a goes before b; price values compare as strings
Mongo_before(sort, a, b) ==
    IF sort = None THEN b.createdAt < a.createdAt
    ELSE CASE The(sort) = "price_asc" -> StringLess(a.price, b.price)
           [] The(sort) = "price_desc" -> StringLess(b.price, a.price)
           [] The(sort) = "created_asc" -> a.createdAt < b.createdAt
           [] OTHER -> b.createdAt < a.createdAt

before(which, sort, a, b) ==
    IF which = "Mem" THEN Mem_before(sort, a, b) ELSE Mongo_before(sort, a, b)

\* a stable sort: x, which came after everything in sorted, goes in front of
\* the first element it is before
InsertSorted(which, sort, x, sorted) ==
    LET later == {i \in DOMAIN sorted : before(which, sort, x, sorted[i])}
    IN  IF later = {} THEN Append(sorted, x)
        ELSE SubSeq(sorted, 1, Min(later) - 1) \o <<x>>
             \o SubSeq(sorted, Min(later), Len(sorted))

RECURSIVE SortStable(_, _, _)
SortStable(which, sort, seq) ==
    IF seq = <<>> THEN <<>>
    ELSE InsertSorted(which, sort, seq[Len(seq)],
                      SortStable(which, sort, SubSeq(seq, 1, Len(seq) - 1)))

\* filters.page || 1 and filters.limit || 12 (MemStorage), || 10 (MongoStorage)
PageOf(filters) == IF TruthyNum(filters.page) THEN The(filters.page) ELSE 1
Mem_limit(filters) == IF TruthyNum(filters.limit) THEN The(filters.limit) ELSE 12
Mongo_limit(filters) == IF TruthyNum(filters.limit) THEN The(filters.limit) ELSE 10

\* the matching properties in the order asked for, before pagination
Mem_sorted(S, filters) ==
    LET all == Docs(S.properties)
        filteredProperties ==
            SelectIdx(all, {i \in DOMAIN all : Mem_matches(all[i], filters)}, 1)
    IN  SortStable("Mem", filters.sort, filteredProperties)

Mongo_sorted(S, filters) ==
    LET all == Docs(S.properties)
        found == SelectIdx(all,
                     {i \in DOMAIN all : Mongo_matches(all[i], filters)}, 1)
    IN  SortStable("Mongo", filters.sort, found)

\* MemStorage attaches the owner and drops a property whose owner is missing
Mem_withOwners(S, page) ==
    LET owned == {i \in DOMAIN page : MapGet(S.users, page[i].createdBy) # None}
        kept == SelectIdx(page, owned, 1)
    IN  [i \in DOMAIN kept |->
            [property |-> kept[i],
             owner |-> OwnerOf(The(MapGet(S.users, kept[i].createdBy)))]]

UnknownOwner == [id |-> 0, name |-> "Unknown", email |-> "unknown@example.com"]

\* MongoStorage attaches the owner, or the placeholder owner
Mongo_withOwners(S, page) ==
    [i \in DOMAIN page |->
        [property |-> mapProperty(page[i]),
         owner |-> LET owner == Mongo_getUser(S, page[i].createdBy)
                   IN  IF owner = None THEN UnknownOwner
                       ELSE OwnerOf(The(owner))]]

Mem_getProperties(S, filters) ==
    LET filteredProperties == Mem_sorted(S, filters)
        total == Len(filteredProperties)
        page == PageOf(filters)
        limit == Mem_limit(filters)
        startIndex == (page - 1) * limit
        endIndex == startIndex + limit
    IN  [properties |->
            Mem_withOwners(S, Slice(filteredProperties, startIndex, endIndex)),
         total |-> total, page |-> page, totalPages |-> CeilDiv(total, limit)]

Mongo_getProperties(S, filters) ==
    LET found == Mongo_sorted(S, filters)
        total == Len(found)
        page == PageOf(filters)
        limit == Mongo_limit(filters)
        skip == (page - 1) * limit
    IN  [properties |-> Mongo_withOwners(S, Slice(found, skip, skip + limit)),
         total |-> total, page |-> page, totalPages |-> CeilDiv(total, limit)]

getProperties(S, filters) ==
    IF impl = "Mem" THEN Mem_getProperties(S, filters)
    ELSE Mongo_getProperties(S, filters)

(***************************************************************************)
(* Tokens and the auth middleware.                                         *)
(***************************************************************************)
\* expiresIn: '7d', in ticks of the clock
ExpiresIn == 7

\* jwt.sign({ id, email }, JWT_SECRET, { expiresIn: '7d' }): iat is the time
\* of signing
generateToken(userId, email) ==
    [id |-> userId, email |-> email, iat |-> now, sig |-> "JWT_SECRET"]

\* a verification that decodes the payload without testing the signature
verifyToken_decodeOnly(token) ==
    IF now < token.iat + ExpiresIn
    THEN Some([id |-> token.id, email |-> token.email])
    ELSE None

\* jwt.verify: the payload of a token signed with JWT_SECRET that has not
\* reached iat + 7d, else it throws
verifyToken(token) ==
    IF token.sig = "JWT_SECRET" /\ now < token.iat + ExpiresIn
    THEN Some([id |-> token.id, email |-> token.email])
    ELSE None

\* the tokens register and login have handed out: one payload per stored user
IssuedTokens ==
    {generateToken(users[i].doc.id, users[i].doc.email) : i \in DOMAIN users}

ForgedToken == [id |-> 1, email |-> "a@x.com", iat |-> now, sig |-> "forged"]

\* a token this server signed seven days ago
ExpiredToken ==
    [id |-> 1, email |-> "a@x.com", iat |-> now - ExpiresIn, sig |-> "JWT_SECRET"]

\* what a request may carry in its Authorization header
RequestTokens ==
    {None, Some(ForgedToken), Some(ExpiredToken)}
    \cup {Some(t) : t \in IssuedTokens}

\* authMiddleware: the user of the request, or the 401 it answers
authMiddleware(tok) ==
    IF tok = None
    THEN [user |-> None, status |-> 401, message |-> "No token provided"]
    ELSE IF verifyToken(The(tok)) = None
    THEN [user |-> None, status |-> 401, message |-> "Invalid token"]
    ELSE [user |-> verifyToken(The(tok)), status |-> 200, message |-> ""]

(***************************************************************************)
(* The cache: redis.get / redis.set / redis.flushall.                      *)
(* byId holds the prop:id:<id> keys, list the prop:list:<md5 of the query> *)
(* keys (the query stands for its digest).                                 *)
(***************************************************************************)
EmptyCache == [byId |-> {}, list |-> {}]

CacheGetId(C, id) == {e.value : e \in {x \in C.byId : x.key = id}}
CacheSetId(C, id, v) ==
    [C EXCEPT !.byId = {x \in C.byId : x.key # id} \cup {[key |-> id, value |-> v]}]

CacheGetList(C, q) == {e.value : e \in {x \in C.list : x.key = q}}
CacheSetList(C, q, v) ==
    [C EXCEPT !.list = {x \in C.list : x.key # q} \cup {[key |-> q, value |-> v]}]

flushall(C) == EmptyCache

(***************************************************************************)
(* Route handlers.  Each gives the response and the storage and cache it   *)
(* leaves: [status, body, S, C].                                           *)
(***************************************************************************)
Reply(status, body, S, C) == [status |-> status, body |-> body, S |-> S, C |-> C]
Message(m) == [message |-> m]

\* a register route that does not look for the email first
Route_register_noLookup(S, C, userData) ==
    LET r == createUser(S, userData)
    IN  Reply(201, [user |-> OwnerOf(r.ret),
                    token |-> generateToken(r.ret.id, r.ret.email)], r.S, C)

\* POST /api/v1/auth/register
Route_register(S, C, userData) ==
    IF getUserByEmail(S, userData.email) # None
    THEN Reply(400, Message("User already exists"), S, C)
    ELSE LET r == createUser(S, userData)
         IN  Reply(201, [user |-> OwnerOf(r.ret),
                         token |-> generateToken(r.ret.id, r.ret.email)], r.S, C)

\* POST /api/v1/auth/login  (email, password: absent from the body when None;
\* bcrypt.compare throws on a password that is not a string)
Route_login(S, C, email, password) ==
    LET user == IF email = None THEN None ELSE getUserByEmail(S, The(email))
    IN  IF user = None THEN Reply(401, Message("Invalid credentials"), S, C)
        ELSE IF password = None THEN Reply(400, Message("Login failed"), S, C)
        ELSE IF ~bcryptCompare(The(password), The(user).password)
        THEN Reply(401, Message("Invalid credentials"), S, C)
        ELSE Reply(200, [user |-> OwnerOf(The(user)),
                         token |-> generateToken(The(user).id, The(user).email)],
                   S, C)

\* POST /api/v1/properties
Route_createProperty(S, C, tok, propertyData, t) ==
    LET auth == authMiddleware(tok)
    IN  IF auth.user = None THEN Reply(auth.status, Message(auth.message), S, C)
        ELSE IF propertyData.title = <<>> \/ propertyData.price = <<>>
                \/ propertyData.city = <<>>
        THEN Reply(400, Message("Missing required property fields."), S, C)
        ELSE LET r == createProperty(S, propertyData, The(auth.user).id, t)
             IN  Reply(201, r.ret, r.S, flushall(C))

\* a PATCH route that answers 403 for a property of somebody else
Route_updateProperty_forbidden(S, C, tok, id, updateData, t) ==
    LET auth == authMiddleware(tok)
    IN  IF auth.user = None THEN Reply(auth.status, Message(auth.message), S, C)
        ELSE IF id = None THEN Reply(400, Message("Invalid property ID"), S, C)
        ELSE LET r == updateProperty(S, The(id), updateData, The(auth.user).id, t)
             IN  IF r.thrown
                 THEN Reply(400, Message("Failed to update property"), r.S, C)
                 ELSE IF r.ret = None /\ getProperty(S, The(id)) # None
                 THEN Reply(403, Message("Forbidden"), r.S, C)
                 ELSE IF r.ret = None
                 THEN Reply(404, Message("Property not found or unauthorized"),
                            r.S, C)
                 ELSE Reply(200, The(r.ret), r.S, flushall(C))

\* PATCH /api/v1/properties/:id  (id is None when Number(req.params.id) is NaN)
Route_updateProperty(S, C, tok, id, updateData, t) ==
    LET auth == authMiddleware(tok)
    IN  IF auth.user = None THEN Reply(auth.status, Message(auth.message), S, C)
        ELSE IF id = None THEN Reply(400, Message("Invalid property ID"), S, C)
        ELSE LET r == updateProperty(S, The(id), updateData, The(auth.user).id, t)
             IN  IF r.thrown
                 THEN Reply(400, Message("Failed to update property"), r.S, C)
                 ELSE IF r.ret = None
                 THEN Reply(404, Message("Property not found or unauthorized"),
                            r.S, C)
                 ELSE Reply(200, The(r.ret), r.S, flushall(C))

\* a DELETE route that drops the key of the deleted property only
Route_deleteProperty_keyOnly(S, C, tok, id) ==
    LET auth == authMiddleware(tok)
    IN  IF auth.user = None THEN Reply(auth.status, Message(auth.message), S, C)
        ELSE IF id = None THEN Reply(400, Message("Invalid property ID"), S, C)
        ELSE LET r == deleteProperty(S, The(id), The(auth.user).id)
             IN  IF ~r.ret
                 THEN Reply(404, Message("Property not found or unauthorized"),
                            r.S, C)
                 ELSE Reply(204, Message(""), r.S,
                            [C EXCEPT !.byId = {x \in C.byId : x.key # The(id)}])

\* DELETE /api/v1/properties/:id
Route_deleteProperty(S, C, tok, id) ==
    LET auth == authMiddleware(tok)
    IN  IF auth.user = None THEN Reply(auth.status, Message(auth.message), S, C)
        ELSE IF id = None THEN Reply(400, Message("Invalid property ID"), S, C)
        ELSE LET r == deleteProperty(S, The(id), The(auth.user).id)
             IN  IF ~r.ret
                 THEN Reply(404, Message("Property not found or unauthorized"),
                            r.S, C)
                 ELSE Reply(204, Message(""), r.S, flushall(C))

\* POST /api/v1/favorites/:propertyId
Route_addFavorite(S, C, tok, propertyId) ==
    LET auth == authMiddleware(tok)
    IN  IF auth.user = None THEN Reply(auth.status, Message(auth.message), S, C)
        ELSE IF propertyId = None
        THEN Reply(400, Message("Invalid property ID"), S, C)
        ELSE LET r == addFavorite(S, The(auth.user).id, The(propertyId))
             IN  Reply(201, r.ret, r.S, C)

\* DELETE /api/v1/favorites/:propertyId
Route_removeFavorite(S, C, tok, propertyId) ==
    LET auth == authMiddleware(tok)
    IN  IF auth.user = None THEN Reply(auth.status, Message(auth.message), S, C)
        ELSE IF propertyId = None
        THEN Reply(400, Message("Invalid property ID"), S, C)
        ELSE LET r == removeFavorite(S, The(auth.user).id, The(propertyId))
             IN  IF ~r.ret THEN Reply(404, Message("Favorite not found"), r.S, C)
                 ELSE Reply(204, Message(""), r.S, C)

\* GET /api/v1/favorites: no token or a bad token gives the empty list
Route_getFavorites(S, C, tok) ==
    LET userId == IF tok = None \/ verifyToken(The(tok)) = None THEN None
                  ELSE Some(The(verifyToken(The(tok))).id)
    IN  IF ~TruthyNum(userId) THEN Reply(200, <<>>, S, C)
        ELSE Reply(200, getUserFavorites(S, The(userId)), S, C)

\* POST /api/v1/recommend  (recipientEmail and propertyId are optional body keys)
Route_recommend(S, C, tok, recipientEmail, propertyId) ==
    LET auth == authMiddleware(tok)
    IN  IF auth.user = None THEN Reply(auth.status, Message(auth.message), S, C)
        ELSE IF recipientEmail = None \/ ~TruthyNum(propertyId)
        THEN Reply(400,
                   Message("Recipient email and propertyId are required."), S, C)
        ELSE LET r == createRecommendation(S, The(auth.user).id,
                          The(recipientEmail), The(propertyId))
             IN  IF r.ret = None
                 THEN Reply(400, Message(
                     "Failed to create recommendation. User or property not found."),
                     r.S, C)
                 ELSE Reply(201, The(r.ret), r.S, C)

\* GET /api/v1/recommendations
Route_getRecommendations(S, C, tok) ==
    LET auth == authMiddleware(tok)
    IN  IF auth.user = None THEN Reply(auth.status, Message(auth.message), S, C)
        ELSE Reply(200, getUserRecommendations(S, The(auth.user).id), S, C)

\* GET /api/v1/auth/me
Route_me(S, C, tok) ==
    LET auth == authMiddleware(tok)
    IN  IF auth.user = None THEN Reply(auth.status, Message(auth.message), S, C)
        ELSE LET user == getUser(S, The(auth.user).id)
             IN  IF user = None THEN Reply(404, Message("User not found"), S, C)
                 ELSE Reply(200, OwnerOf(The(user)), S, C)

\* the PropertyFilters the list route builds from the query string
RouteFilters(query) ==
    [query EXCEPT !.page = IF query.page = None THEN Some(1) ELSE query.page,
                  !.limit = IF query.limit = None THEN Some(12) ELSE query.limit]

\* GET /api/v1/properties
Route_getProperties(S, C, query) ==
    LET cached == CacheGetList(C, query)
    IN  IF cached # None THEN Reply(200, The(cached), S, C)
        ELSE LET result == getProperties(S, RouteFilters(query))
             IN  Reply(200, result, S, CacheSetList(C, query, result))

\* GET /api/v1/properties/:id
Route_getProperty(S, C, id) ==
    LET cached == CacheGetId(C, id)
    IN  IF cached # None THEN Reply(200, The(cached), S, C)
        ELSE LET property == getProperty(S, id)
             IN  IF property = None
                 THEN Reply(404, Message("Property not found"), S, C)
                 ELSE Reply(200, The(property), S, CacheSetId(C, id, The(property)))

\* GET /api/v1/properties and GET /api/v1/properties/:id of the routes that
\* call storage directly
Direct_getProperties(S, C, query) ==
    Reply(200, getProperties(S, RouteFilters(query)), S, C)

Direct_getProperty(S, C, id) ==
    LET property == getProperty(S, id)
    IN  IF property = None THEN Reply(404, Message("Property not found"), S, C)
        ELSE Reply(200, The(property), S, C)

(***************************************************************************)
(* Request inputs.                                                         *)
(***************************************************************************)
sLake == <<"L","a","k","e">>
sOak == <<"O","a","k">>
sHouse == <<"H","o","u","s","e">>
sCondo == <<"C","o","n","d","o">>
sYes == <<"Y","e","s">>
sNo == <<"N","o">>
sSale == <<"S","a","l","e">>
sRent == <<"R","e","n","t">>
sPool == <<"P","o","o","l","|","G","y","m">>

\* a valid InsertProperty
BaseData ==
    [title |-> <<"P">>, price |-> <<"6">>, areaSqFt |-> 10, bedrooms |-> 2,
     bathrooms |-> 1, city |-> sLake, state |-> <<"W","A">>,
     country |-> <<"U","S">>, type |-> sHouse, furnished |-> sYes,
     listingType |-> sSale, listedBy |-> Some(<<"A","g","e","n","t">>),
     isVerified |-> None, amenities |-> None, tags |-> None,
     availableFrom |-> None, rating |-> None, colorTheme |-> None]

\* the bodies POST /properties receives in Spec
SpecData == {BaseData}

Emails == {"a@x.com", "b@x.com"}
sPw == <<"p", "w">>
Passwords == {sPw}
UnknownEmail == "nobody@x.com"

\* two passwords of 73 characters that differ in the last one only
sLongPw == [i \in 1..(BcryptMaxBytes + 1) |-> "a"]
sLongPw2 == [sLongPw EXCEPT ![BcryptMaxBytes + 1] = "b"]
sOtherPw == <<"p", "x">>

\* the bodies POST /auth/login receives
LoginEmails == {None} \cup {Some(e) : e \in Emails \cup {UnknownEmail}}
LoginPasswords == {None, Some(sPw), Some(sOtherPw)}

\* the recipientEmail a recommend body may carry; None is a body without one
RecipientEmails == {None, Some(UnknownEmail)} \cup {Some(e) : e \in Emails}

\* a user id no stored user has: the counter never gets that far
NoSuchUser == MaxId + 2

\* ids a path or a body may name: those of stored properties, of stored
\* favorites and recommendations, the next id, and NaN (None)
KnownIds ==
    {properties[i].key : i \in DOMAIN properties}
    \cup {properties[i].doc.id : i \in DOMAIN properties}
    \cup {favorites[i].doc.propertyId : i \in DOMAIN favorites}
    \cup {recommendations[i].doc.propertyId : i \in DOMAIN recommendations}
PathIds == {None, Some(currentId)} \cup {Some(i) : i \in KnownIds}

\* the bodies PATCH /properties/:id receives: the body is not validated, so
\* it may name any key of the record
PatchBodies ==
    {[price |-> <<"9">>]}
    \cup {[createdBy |-> u] : u \in {users[i].doc.id : i \in DOMAIN users}
                                    \cup {NoSuchUser}}
    \cup {[id |-> i] : i \in KnownIds}

\* the bodies PATCH /properties/:id receives in CacheSpec: a new price, or
\* an owner id no user has yet
CachePatches == {[price |-> <<"9">>], [createdBy |-> currentId]}

\* the query with no parameter
NoQuery ==
    [priceMin |-> None, priceMax |-> None, areaMin |-> None, areaMax |-> None,
     bedrooms |-> None, bathrooms |-> None, city |-> None, state |-> None,
     country |-> None, type |-> None, furnished |-> None, listingType |-> None,
     isVerified |-> None, amenities |-> None, tags |-> None,
     availableFromBefore |-> None, availableFromAfter |-> None,
     sort |-> None, page |-> None, limit |-> None]

\* the queries GET /properties receives in Spec
SpecQueries == {NoQuery}

\* a second listing: dearer, elsewhere, with amenities and an availability date
OakData ==
    [BaseData EXCEPT !.price = <<"1","2">>, !.city = sOak, !.type = sCondo,
                     !.areaSqFt = 20, !.bedrooms = 3, !.isVerified = Some(TRUE),
                     !.amenities = Some(sPool), !.availableFrom = Some(1)]

\* the bodies POST /properties receives in QuerySpec
QueryData == {BaseData, OakData}

\* the bodies PATCH /properties/:id receives in QuerySpec
QueryPatches == {[createdBy |-> NoSuchUser]}

\* the queries GET /properties receives in QuerySpec
QueryQueries == {[NoQuery EXCEPT !.sort = Some("price_asc"), !.limit = Some(1)]}

(***************************************************************************)
(* Actions: one per route, the handler run to completion.                  *)
(***************************************************************************)
WithinBounds(S) ==
    /\ S.currentId <= MaxId + 1
    /\ Len(S.users) <= MaxUsers
    /\ Len(S.favorites) <= MaxFavs
    /\ Len(S.recommendations) <= MaxRecs

\* the request handled: the storage and the cache it leaves, at time t
Handled(r, t) ==
    /\ IF r.S = Store THEN TRUE ELSE WithinBounds(r.S)
    /\ UNCHANGED <<deleted, race>>
    /\ users' = r.S.users
    /\ properties' = r.S.properties
    /\ favorites' = r.S.favorites
    /\ recommendations' = r.S.recommendations
    /\ currentId' = r.S.currentId
    /\ cache' = r.C
    /\ now' = t
    /\ UNCHANGED impl

\* the clock readings a handler may see: now, or one tick later
Ticks == {t \in {now, now + 1} : t <= MaxTime}
\* the clock standing still
NoTick == {now}

Register ==
    \E email \in Emails, password \in Passwords :
        Handled(Route_register(Store, cache,
                    [name |-> "n", email |-> email, password |-> password]),
                now)

Login ==
    \E email \in LoginEmails, password \in LoginPasswords :
        Handled(Route_login(Store, cache, email, password), now)

PostProperty(dataSet, ticks, maxProps) ==
    \E tok \in RequestTokens, data \in dataSet, t \in ticks :
        LET r == Route_createProperty(Store, cache, tok, data, t)
        IN  /\ Len(r.S.properties) <= maxProps
            /\ Handled(r, t)

PatchProperty(bodies) ==
    \E tok \in RequestTokens, id \in PathIds, body \in bodies :
        Handled(Route_updateProperty(Store, cache, tok, id, body, now), now)

\* the users holding a favorite of property id, or recommended it
LinkedUsers(S, id) ==
    {S.favorites[i].doc.userId :
        i \in {j \in DOMAIN S.favorites : S.favorites[j].doc.propertyId = id}}
    \cup {S.recommendations[i].doc.toUserId :
        i \in {j \in DOMAIN S.recommendations :
                    S.recommendations[j].doc.propertyId = id}}

DeleteProperty ==
    \E tok \in RequestTokens, id \in PathIds :
        LET r == Route_deleteProperty(Store, cache, tok, id)
        IN  /\ WithinBounds(r.S)
            /\ users' = r.S.users
            /\ properties' = r.S.properties
            /\ favorites' = r.S.favorites
            /\ recommendations' = r.S.recommendations
            /\ currentId' = r.S.currentId
            /\ cache' = r.C
            /\ deleted' = IF r.status = 204
                          THEN deleted \cup {[user |-> u, id |-> The(id)] :
                                                u \in LinkedUsers(Store, The(id))}
                          ELSE deleted
            /\ UNCHANGED <<impl, now, race>>

PostFavorite ==
    \E tok \in RequestTokens, id \in PathIds :
        Handled(Route_addFavorite(Store, cache, tok, id), now)

DeleteFavorite ==
    \E tok \in RequestTokens, id \in PathIds :
        Handled(Route_removeFavorite(Store, cache, tok, id), now)

GetFavorites ==
    \E tok \in RequestTokens :
        Handled(Route_getFavorites(Store, cache, tok), now)

PostRecommend ==
    \E tok \in RequestTokens, id \in PathIds, email \in RecipientEmails :
        Handled(Route_recommend(Store, cache, tok, email, id), now)

GetRecommendations ==
    \E tok \in RequestTokens :
        Handled(Route_getRecommendations(Store, cache, tok), now)

GetMe ==
    \E tok \in RequestTokens :
        Handled(Route_me(Store, cache, tok), now)

GetProperties(querySet) ==
    \E query \in querySet :
        Handled(Route_getProperties(Store, cache, query), now)

GetProperty ==
    \E id \in KnownIds \cup {currentId} :
        Handled(Route_getProperty(Store, cache, id), now)

\* a cached key reaches its 60 s time to live
CacheExpire ==
    /\ cache' \in {[cache EXCEPT !.byId = @ \ {e}] : e \in cache.byId}
                  \cup {[cache EXCEPT !.list = @ \ {e}] : e \in cache.list}
    /\ UNCHANGED <<impl, users, properties, favorites, recommendations,
                   currentId, now, deleted, race>>

(***************************************************************************)
(* The cached list route and the property writes, one await at a time.     *)
(* A read is redis.get, storage.getProperties, redis.set, res.json; a      *)
(* write is the storage call, redis.flushall, the response.                *)
(***************************************************************************)
MaxReaders == 2
MaxWrites == 2

Readers == 1..MaxReaders

\* a request slot with no request in it
IdleRead == [pc |-> "idle", began |-> 0, ver |-> 0, res |-> None]

MaxCallers == 2
Callers == 1..MaxCallers

\* a caller with no call in flight
IdleCall == [op |-> "idle", pc |-> "idle", data |-> None, id |-> 0,
             ret |-> None]

\* reads: the read requests in flight; for each, the number of writes that
\*        had completed when it began (began), its result (res) and the
\*        number of storage writes that result was computed after (ver)
\* writing: a write has changed storage and not yet flushed the cache
\* version: storage writes done; completed: writes whose flushall is done
\* stamp: the ver of the result held under the list key of the cache
\* calls: the storage calls in flight, one per caller
\* issued: history, the ids the counter has handed out, in order
RaceInit ==
    [reads |-> [r \in Readers |-> IdleRead], writing |-> FALSE,
     version |-> 0, completed |-> 0, stamp |-> 0,
     calls |-> [s \in Callers |-> IdleCall], issued |-> <<>>]

\* GET /api/v1/properties arrives
ReadBegin(r) ==
    /\ race.reads[r].pc = "idle"
    /\ race' = [race EXCEPT !.reads[r] =
                    [IdleRead EXCEPT !.pc = "get", !.began = race.completed]]
    /\ UNCHANGED <<impl, users, properties, favorites, recommendations,
                   currentId, cache, now, deleted>>

\* const cached = await redis.get(cacheKey)
ReadCacheGet(r, query) ==
    /\ race.reads[r].pc = "get"
    /\ LET cached == CacheGetList(cache, query)
       IN  race' = IF cached # None
                   THEN [race EXCEPT !.reads[r].pc = "respond",
                                     !.reads[r].res = cached,
                                     !.reads[r].ver = race.stamp]
                   ELSE [race EXCEPT !.reads[r].pc = "storage"]
    /\ UNCHANGED <<impl, users, properties, favorites, recommendations,
                   currentId, cache, now, deleted>>

\* const result = await storage.getProperties(filtersObj)
ReadStorage(r, query) ==
    /\ race.reads[r].pc = "storage"
    /\ race' = [race EXCEPT
                    !.reads[r].pc = "set",
                    !.reads[r].res = Some(getProperties(Store, RouteFilters(query))),
                    !.reads[r].ver = race.version]
    /\ UNCHANGED <<impl, users, properties, favorites, recommendations,
                   currentId, cache, now, deleted>>

\* await redis.set(cacheKey, JSON.stringify(result), 'EX', 60)
ReadCacheSet(r, query) ==
    /\ race.reads[r].pc = "set"
    /\ cache' = CacheSetList(cache, query, The(race.reads[r].res))
    /\ race' = [race EXCEPT !.reads[r].pc = "respond",
                            !.stamp = race.reads[r].ver]
    /\ UNCHANGED <<impl, users, properties, favorites, recommendations,
                   currentId, now, deleted>>

\* res.json(...): the request is over
ReadRespond(r) ==
    /\ race.reads[r].pc = "respond"
    /\ race' = [race EXCEPT !.reads[r] = IdleRead]
    /\ UNCHANGED <<impl, users, properties, favorites, recommendations,
                   currentId, cache, now, deleted>>

\* the storage call of a POST, PATCH or DELETE of a property that succeeds;
\* the handler then waits for its redis.flushall
WriteStorage ==
    /\ ~race.writing
    /\ race.version < MaxWrites
    /\ \E tok \in RequestTokens, id \in PathIds :
         \E r \in {Route_createProperty(Store, cache, tok, data, now) :
                        data \in SpecData}
                  \cup {Route_updateProperty(Store, cache, tok, id, body, now) :
                           body \in CachePatches}
                  \cup {Route_deleteProperty(Store, cache, tok, id)} :
            /\ r.status \in {200, 201, 204}
            /\ Len(r.S.properties) <= MaxProps
            /\ WithinBounds(r.S)
            /\ users' = r.S.users
            /\ properties' = r.S.properties
            /\ favorites' = r.S.favorites
            /\ recommendations' = r.S.recommendations
            /\ currentId' = r.S.currentId
    /\ race' = [race EXCEPT !.writing = TRUE, !.version = @ + 1]
    /\ UNCHANGED <<impl, cache, now, deleted>>

\* await redis.flushall(), then the success response
WriteFlushall ==
    /\ race.writing
    /\ cache' = flushall(cache)
    /\ race' = [race EXCEPT !.writing = FALSE, !.completed = race.version]
    /\ UNCHANGED <<impl, users, properties, favorites, recommendations,
                   currentId, now, deleted>>

(***************************************************************************)
(* A store that holds more properties than a page.                         *)
(***************************************************************************)
MaxPageProps == 13

\* the store after one user registered
OneUser ==
    createUser(EmptyStore,
        [name |-> "n", email |-> "a@x.com", password |-> sPw]).S

\* the entry createProperty adds when the counter stands at id
CreatedAt(id) ==
    LET P == createProperty([OneUser EXCEPT !.currentId = id], BaseData, 1, 0)
                .S.properties
    IN  P[Len(P)]

\* the store after that user created n properties, one after the other
Filled(n) ==
    [OneUser EXCEPT !.properties = [i \in 1..n |-> CreatedAt(i + 1)],
                    !.currentId = n + 2]

\* the queries GET /properties receives in PageSpec
PageQueries ==
    {[NoQuery EXCEPT !.page = p, !.limit = l] :
        p \in {None, Some(2)}, l \in {None, Some(0), Some(5)}}

PageInit ==
    /\ impl \in {"Mem", "Mongo"}
    /\ \E n \in 0..MaxPageProps :
         /\ users = Filled(n).users
         /\ properties = Filled(n).properties
         /\ currentId = Filled(n).currentId
    /\ favorites = <<>>
    /\ recommendations = <<>>
    /\ cache = EmptyCache
    /\ now = 0
    /\ deleted = {}
    /\ race = RaceInit

(***************************************************************************)
(* The creating calls, one await at a time.                                *)
(* register: getUserByEmail, bcrypt.hash, then createUser's id and insert. *)
(* createRecommendation: getUserByEmail, then id and insert.               *)
(* createProperty, addFavorite: id and insert.                             *)
(* MemStorage takes the id and sets the Map entry without an await in      *)
(* between; MongoStorage takes the id and then awaits insertOne.           *)
(***************************************************************************)
\* an id read without the increment
TakeId_noIncrement(S) == [id |-> S.currentId, currentId |-> S.currentId]

\* const id = this.currentId++
TakeId(S) == [id |-> S.currentId, currentId |-> S.currentId + 1]

\* the calls that may arrive
CallInputs ==
    {[op |-> "register",
      data |-> [name |-> "n", email |-> e, password |-> sPw]] : e \in Emails}
    \cup {[op |-> "createProperty",
           data |-> [insertProperty |-> BaseData, createdBy |-> u]] :
              u \in {users[i].doc.id : i \in DOMAIN users}}
    \cup {[op |-> "addFavorite", data |-> [userId |-> u, propertyId |-> p]] :
              u \in {users[i].doc.id : i \in DOMAIN users},
              p \in {properties[i].doc.id : i \in DOMAIN properties}}
    \cup {[op |-> "createRecommendation",
           data |-> [fromUserId |-> u, toUserEmail |-> e, propertyId |-> p]] :
              u \in {users[i].doc.id : i \in DOMAIN users}, e \in Emails,
              p \in {properties[i].doc.id : i \in DOMAIN properties}}

\* the storage method of a call, run on store S
Applied(op, S, data) ==
    CASE op = "register" -> createUser(S, data)
      [] op = "createProperty" ->
            createProperty(S, data.insertProperty, data.createdBy, now)
      [] op = "addFavorite" -> addFavorite(S, data.userId, data.propertyId)
      [] op = "createRecommendation" ->
            createRecommendation(S, data.fromUserId, data.toUserEmail,
                                 data.propertyId)

\* the collection a call inserts into
CollOf(op) ==
    CASE op = "register" -> "users"
      [] op = "createProperty" -> "properties"
      [] op = "addFavorite" -> "favorites"
      [] op = "createRecommendation" -> "recommendations"

\* the storage becomes S
Stored(S) ==
    /\ WithinBounds(S)
    /\ Len(S.properties) <= MaxProps
    /\ users' = S.users
    /\ properties' = S.properties
    /\ favorites' = S.favorites
    /\ recommendations' = S.recommendations
    /\ currentId' = S.currentId

\* a call arrives
CallBegin(s) ==
    /\ race.calls[s].pc = "idle"
    /\ \E c \in CallInputs :
         race' = [race EXCEPT !.calls[s] =
                     [op |-> c.op, data |-> Some(c.data), id |-> 0,
                      ret |-> None,
                      pc |-> IF c.op \in {"register", "createRecommendation"}
                             THEN "lookup" ELSE "id"]]
    /\ UNCHANGED <<impl, users, properties, favorites, recommendations,
                   currentId, cache, now, deleted>>

\* await storage.getUserByEmail(...): register stops when the email is
\* stored, createRecommendation when it is not
CallLookup(s) ==
    LET call == race.calls[s]
        found == getUserByEmail(Store,
                     IF call.op = "register" THEN The(call.data).email
                     ELSE The(call.data).toUserEmail) # None
    IN  /\ call.pc = "lookup"
        /\ race' = [race EXCEPT !.calls[s] =
                        IF call.op = "register"
                        THEN (IF found THEN IdleCall
                              ELSE [call EXCEPT !.pc = "hash"])
                        ELSE (IF found THEN [call EXCEPT !.pc = "id"]
                              ELSE IdleCall)]
        /\ UNCHANGED <<impl, users, properties, favorites, recommendations,
                       currentId, cache, now, deleted>>

\* await bcrypt.hash(insertUser.password, 10)
CallHash(s) ==
    /\ race.calls[s].pc = "hash"
    /\ race' = [race EXCEPT !.calls[s].pc = "id"]
    /\ UNCHANGED <<impl, users, properties, favorites, recommendations,
                   currentId, cache, now, deleted>>

\* MemStorage: the rest of the method runs without an await
CallMemSet(s) ==
    LET call == race.calls[s]
        r == Applied(call.op, Store, The(call.data))
    IN  /\ impl = "Mem"
        /\ call.pc = "id"
        /\ Stored(r.S)
        /\ race' = [race EXCEPT
                        !.calls[s] = IdleCall,
                        !.issued = IF r.S.currentId # currentId
                                   THEN Append(@, TakeId(Store).id) ELSE @]
        /\ UNCHANGED <<impl, cache, now, deleted>>

\* MongoStorage: const id = this.currentId++, then the method awaits insertOne
CallTakeId(s) ==
    LET call == race.calls[s]
        t == TakeId(Store)
    IN  /\ impl = "Mongo"
        /\ call.pc = "id"
        /\ t.currentId <= MaxId + 1
        /\ currentId' = t.currentId
        /\ race' = [race EXCEPT !.calls[s].pc = "insert",
                                !.calls[s].id = t.id,
                                !.issued = Append(@, t.id)]
        /\ UNCHANGED <<impl, users, properties, favorites, recommendations,
                       cache, now, deleted>>

\* MongoStorage: await this.<collection>.insertOne(document), the document
\* built with the id taken
CallInsert(s) ==
    LET call == race.calls[s]
        coll == CollOf(call.op)
        made == Applied(call.op, [Store EXCEPT !.currentId = call.id],
                        The(call.data)).S[coll]
    IN  /\ call.pc = "insert"
        /\ Stored([Store EXCEPT ![coll] = Append(@, made[Len(made)])])
        /\ race' = [race EXCEPT !.calls[s] = IdleCall]
        /\ UNCHANGED <<impl, cache, now, deleted>>


(***************************************************************************)
(* updateProperty and deleteProperty, one await at a time.                 *)
(* MemStorage runs each method without an await.  MongoStorage.update-     *)
(* Property awaits findOne({id, createdBy}) and later awaits               *)
(* updateOne({id}, {$set: updatedProperty}); deleteProperty is one         *)
(* deleteOne.  A finished call keeps its result until the caller takes it. *)
(***************************************************************************)
\* the payloads of the concurrent updates: two disjoint fields
UpdateBodies == {[price |-> <<"9">>], [title |-> sOak]}

\* an update or a delete arrives for a stored property
WriteBegin(s) ==
    /\ race.calls[s].pc = "idle"
    /\ \E op \in {"updateProperty", "deleteProperty"},
          u \in {users[i].doc.id : i \in DOMAIN users},
          id \in {properties[i].doc.id : i \in DOMAIN properties},
          body \in UpdateBodies :
         race' = [race EXCEPT !.calls[s] =
                     [op |-> op, pc |-> "run", id |-> 0, ret |-> None,
                      data |-> Some([id |-> id, userId |-> u,
                                     body |-> IF op = "updateProperty"
                                              THEN Some(body) ELSE None,
                                     read |-> None])]]
    /\ UNCHANGED <<impl, users, properties, favorites, recommendations,
                   currentId, cache, now, deleted>>

\* MemStorage.updateProperty, whole
UpdateMem(s) ==
    LET call == race.calls[s]
        d == The(call.data)
        r == Mem_updateProperty(Store, d.id, The(d.body), d.userId, now)
    IN  /\ impl = "Mem"
        /\ call.op = "updateProperty" /\ call.pc = "run"
        /\ properties' = r.S.properties
        /\ race' = [race EXCEPT !.calls[s].pc = "done",
                                !.calls[s].ret = r.ret]
        /\ UNCHANGED <<impl, users, favorites, recommendations, currentId,
                       cache, now, deleted>>

\* MongoStorage.updateProperty: await findOne({ id, createdBy: userId })
UpdateFind(s) ==
    LET call == race.calls[s]
        d == The(call.data)
        P == properties
        existingProperty ==
            FirstDoc(P, {i \in DOMAIN P : P[i].doc.id = d.id
                                          /\ P[i].doc.createdBy = d.userId})
    IN  /\ impl = "Mongo"
        /\ call.op = "updateProperty" /\ call.pc = "run"
        /\ race' = [race EXCEPT !.calls[s] =
                        IF existingProperty = None
                        THEN [call EXCEPT !.pc = "done"]
                        ELSE [call EXCEPT
                                 !.pc = "write",
                                 !.data = Some([d EXCEPT
                                             !.read = existingProperty])]]
        /\ UNCHANGED <<impl, users, properties, favorites, recommendations,
                       currentId, cache, now, deleted>>

\* MongoStorage.updateProperty: await updateOne({ id }, { $set }) with the
\* document read spread under the payload, then return mapProperty of it;
\* $set onto a document with another _id throws
UpdateWrite(s) ==
    LET call == race.calls[s]
        d == The(call.data)
        P == properties
        updatedProperty ==
            Spread(Spread(The(d.read).doc, The(d.body)), [updatedAt |-> now])
        hit == {i \in DOMAIN P : P[i].doc.id = d.id}
    IN  /\ call.pc = "write"
        /\ IF hit = {}
           THEN /\ properties' = P
                /\ race' = [race EXCEPT
                      !.calls[s].pc = "done",
                      !.calls[s].ret = Some(mapProperty(updatedProperty))]
           ELSE IF P[Min(hit)].key # The(d.read).key
           THEN /\ properties' = P
                /\ race' = [race EXCEPT !.calls[s].pc = "done"]
           ELSE /\ properties' = [P EXCEPT ![Min(hit)].doc = updatedProperty]
                /\ race' = [race EXCEPT
                      !.calls[s].pc = "done",
                      !.calls[s].ret = Some(mapProperty(updatedProperty))]
        /\ UNCHANGED <<impl, users, favorites, recommendations, currentId,
                       cache, now, deleted>>

\* deleteProperty, whole in both implementations
DeleteRun(s) ==
    LET call == race.calls[s]
        d == The(call.data)
        r == deleteProperty(Store, d.id, d.userId)
    IN  /\ call.op = "deleteProperty" /\ call.pc = "run"
        /\ properties' = r.S.properties
        /\ favorites' = r.S.favorites
        /\ recommendations' = r.S.recommendations
        /\ race' = [race EXCEPT !.calls[s].pc = "done",
                                !.calls[s].ret = Some(r.ret)]
        /\ UNCHANGED <<impl, users, currentId, cache, now, deleted>>

\* the caller takes the result
WriteReturn(s) ==
    /\ race.calls[s].pc = "done"
    /\ race' = [race EXCEPT !.calls[s] = IdleCall]
    /\ UNCHANGED <<impl, users, properties, favorites, recommendations,
                   currentId, cache, now, deleted>>


Init ==
    /\ impl \in {"Mem", "Mongo"}
    /\ users = <<>>
    /\ properties = <<>>
    /\ favorites = <<>>
    /\ recommendations = <<>>
    /\ currentId = 1
    /\ cache = EmptyCache
    /\ now = 0
    /\ deleted = {}
    /\ race = RaceInit

Next ==
    \/ Register
    \/ Login
    \/ PostProperty(SpecData, NoTick, MaxProps)
    \/ PatchProperty(PatchBodies)
    \/ DeleteProperty
    \/ PostFavorite
    \/ DeleteFavorite
    \/ GetFavorites
    \/ PostRecommend
    \/ GetRecommendations
    \/ GetMe
    \/ GetProperties(SpecQueries)
    \/ GetProperty
    \/ CacheExpire

Spec == Init /\ [][Next]_vars

\* the listing routes alone, over more properties and a moving clock
QueryNext ==
    \/ Register
    \/ PostProperty(QueryData, Ticks, MaxQueryProps)
    \/ PatchProperty(QueryPatches)
    \/ GetProperties(QueryQueries)

QuerySpec == Init /\ [][QueryNext]_vars

\* the property routes and their cache, with registration
CacheNext ==
    \/ Register
    \/ PostProperty(SpecData, NoTick, MaxProps)
    \/ PatchProperty(CachePatches)
    \/ DeleteProperty
    \/ GetProperties(SpecQueries)
    \/ GetProperty
    \/ CacheExpire

CacheSpec == Init /\ [][CacheNext]_vars

\* the list route over a store of several pages
PageNext ==
    \/ GetProperties(PageQueries)
    \/ CacheExpire

PageSpec == PageInit /\ [][PageNext]_vars

\* the creating calls interleaved at their awaits
CreateNext ==
    \/ \E s \in Callers : CallBegin(s)
    \/ \E s \in Callers : CallLookup(s)
    \/ \E s \in Callers : CallHash(s)
    \/ \E s \in Callers : CallMemSet(s)
    \/ \E s \in Callers : CallTakeId(s)
    \/ \E s \in Callers : CallInsert(s)

CreateSpec == Init /\ [][CreateNext]_vars

\* updates and deletes of properties interleaved at their awaits
UpdateNext ==
    \/ Register
    \/ PostProperty({BaseData}, NoTick, MaxProps)
    \/ \E s \in Callers : WriteBegin(s)
    \/ \E s \in Callers : UpdateMem(s)
    \/ \E s \in Callers : UpdateFind(s)
    \/ \E s \in Callers : UpdateWrite(s)
    \/ \E s \in Callers : DeleteRun(s)
    \/ \E s \in Callers : WriteReturn(s)

UpdateSpec == Init /\ [][UpdateNext]_vars

\* the list route and the property writes interleaved at their awaits
RaceNext ==
    \/ Register
    \/ \E r \in Readers : ReadBegin(r)
    \/ \E r \in Readers, query \in SpecQueries : ReadCacheGet(r, query)
    \/ \E r \in Readers, query \in SpecQueries : ReadStorage(r, query)
    \/ \E r \in Readers, query \in SpecQueries : ReadCacheSet(r, query)
    \/ \E r \in Readers : ReadRespond(r)
    \/ WriteStorage
    \/ WriteFlushall

RaceSpec == Init /\ [][RaceNext]_vars

(***************************************************************************)
(* Properties of the listing: filter, pagination, order.                   *)
(***************************************************************************)
\* the predicates a PropertyFilters value supplies, read off the contract:
\* an absent or empty field imposes nothing
InRange(x, lo, hi) ==
    /\ lo # None => x >= The(lo)
    /\ hi # None => x <= The(hi)

ContainsCI(field, f) ==
    TruthyStr(f) =>
        /\ field # None
        /\ includes(toLowerCase(The(field)), toLowerCase(The(f)))

Equals(field, f) == TruthyStr(f) => field = The(f)

Satisfies(p, f) ==
    /\ InRange(parseFloat(p.price), f.priceMin, f.priceMax)
    /\ InRange(p.areaSqFt, f.areaMin, f.areaMax)
    /\ InRange(p.bedrooms, f.bedrooms, None)
    /\ InRange(p.bathrooms, f.bathrooms, None)
    /\ ContainsCI(Some(p.city), f.city)
    /\ ContainsCI(Some(p.state), f.state)
    /\ ContainsCI(Some(p.country), f.country)
    /\ ContainsCI(p.amenities, f.amenities)
    /\ ContainsCI(p.tags, f.tags)
    /\ Equals(p.type, f.type)
    /\ Equals(p.furnished, f.furnished)
    /\ Equals(p.listingType, f.listingType)
    /\ f.isVerified # None => p.isVerified = The(f.isVerified)
    /\ (f.availableFromAfter # None \/ f.availableFromBefore # None) =>
          /\ p.availableFrom # None
          /\ InRange(The(p.availableFrom), f.availableFromAfter,
                     f.availableFromBefore)

\* filters of plain values: no sentinel, no blank, no regular-expression
\* metacharacter
PlainFilters ==
    {NoQuery,
     [NoQuery EXCEPT !.priceMin = Some(7)],
     [NoQuery EXCEPT !.priceMax = Some(7)],
     [NoQuery EXCEPT !.priceMin = Some(6), !.priceMax = Some(12)],
     [NoQuery EXCEPT !.areaMin = Some(15)],
     [NoQuery EXCEPT !.areaMax = Some(15)],
     [NoQuery EXCEPT !.bedrooms = Some(3)],
     [NoQuery EXCEPT !.bathrooms = Some(1)],
     [NoQuery EXCEPT !.city = Some(<<"o","A">>)],
     [NoQuery EXCEPT !.city = Some(<<>>)],
     [NoQuery EXCEPT !.state = Some(<<"w","a">>), !.country = Some(<<"U">>)],
     [NoQuery EXCEPT !.type = Some(sCondo)],
     [NoQuery EXCEPT !.furnished = Some(sYes), !.listingType = Some(sRent)],
     [NoQuery EXCEPT !.isVerified = Some(TRUE)],
     [NoQuery EXCEPT !.isVerified = Some(FALSE)],
     [NoQuery EXCEPT !.amenities = Some(<<"g","y","m">>)],
     [NoQuery EXCEPT !.tags = Some(<<"n","e","w">>)],
     [NoQuery EXCEPT !.availableFromAfter = Some(1)],
     [NoQuery EXCEPT !.availableFromBefore = Some(0)],
     [NoQuery EXCEPT !.city = Some(sOak), !.areaMin = Some(15)]}

\* C1: for every stored set and every filter, getProperties reports as total
\* the number of stored properties satisfying all the supplied predicates and
\* returns only such properties; with no filter every property is matched.
C1_FilterExact ==
    \A f \in PlainFilters :
        LET r == getProperties(Store, f)
            all == Docs(properties)
        IN  /\ r.total = Cardinality({i \in DOMAIN all : Satisfies(all[i], f)})
            /\ \A j \in DOMAIN r.properties :
                   Satisfies(r.properties[j].property, f)

\* page and limit from 1 up
PageFilters ==
    {[NoQuery EXCEPT !.page = Some(pg), !.limit = Some(l)] :
        pg \in 1..3, l \in 1..2}

\* the matching properties in the order asked for, before pagination
SortedMatches(f) ==
    IF impl = "Mem" THEN Mem_sorted(Store, f) ELSE Mongo_sorted(Store, f)

\* C2: for page >= 1 and limit >= 1, totalPages = ceil(total / limit), total
\* is the number of matches before pagination, and the page holds exactly
\* the matches at positions (page-1)*limit+1 .. min(page*limit, total).
C2_Pagination ==
    \A f \in PageFilters :
        LET r == getProperties(Store, f)
            sorted == SortedMatches(f)
            total == Len(sorted)
            first == (The(f.page) - 1) * The(f.limit) + 1
            last == Min({The(f.page) * The(f.limit), total})
            count == IF last >= first THEN last - first + 1 ELSE 0
        IN  /\ r.total = total
            /\ r.totalPages = CeilDiv(total, The(f.limit))
            /\ Len(r.properties) = count
            /\ \A j \in 1..Min({count, Len(r.properties)}) :
                   r.properties[j].property.id = sorted[first + j - 1].id

\* the sort keys of the route, and none
SortKeys ==
    {None, Some("price_asc"), Some("price_desc"), Some("created_asc"),
     Some("created_desc")}

\* property a may stand before property b under the sort key
InOrder(sort, a, b) ==
    IF sort = None THEN a.createdAt >= b.createdAt
    ELSE CASE The(sort) = "price_asc" -> parseFloat(a.price) <= parseFloat(b.price)
           [] The(sort) = "price_desc" -> parseFloat(a.price) >= parseFloat(b.price)
           [] The(sort) = "created_asc" -> a.createdAt <= b.createdAt
           [] The(sort) = "created_desc" -> a.createdAt >= b.createdAt

\* C3: getProperties orders the result by the requested key: price_asc by
\* non-decreasing numeric price, price_desc non-increasing, created_asc
\* oldest first, created_desc newest first, and newest first by default.
C3_SortOrder ==
    \A sort \in SortKeys :
        LET r == getProperties(Store, [NoQuery EXCEPT !.sort = sort]).properties
        IN  \A i, j \in DOMAIN r :
                i < j => InOrder(sort, r[i].property, r[j].property)

(***************************************************************************)
(* Properties of favorites, recommendations and ownership.                 *)
(***************************************************************************)
UserIds == {users[i].doc.id : i \in DOMAIN users}

\* the ids a call may name: every id in use, and the next one
CallIds == KnownIds \cup {currentId}

\* no stored property is found under id, by key or by its id field
Absent(id) ==
    \A i \in DOMAIN properties :
        properties[i].key # id /\ properties[i].doc.id # id

\* no stored property found under id belongs to user u
NotOwnedBy(u, id) ==
    \A i \in DOMAIN properties :
        (properties[i].key = id \/ properties[i].doc.id = id)
            => properties[i].doc.createdBy # u

\* the ids of the properties of a resolved list
ListedIds(list) == {list[i].property.id : i \in DOMAIN list}

\* C4: addFavorite is idempotent: the store holds at most one Favorite per
\* (userId, propertyId) pair, and a call for a pair that exists returns the
\* existing record and creates nothing.
C4_AddFavoriteIdempotent ==
    /\ \A i, j \in DOMAIN favorites :
           (/\ favorites[i].doc.userId = favorites[j].doc.userId
            /\ favorites[i].doc.propertyId = favorites[j].doc.propertyId)
               => i = j
    /\ \A i \in DOMAIN favorites :
           LET r == addFavorite(Store, favorites[i].doc.userId,
                                favorites[i].doc.propertyId)
           IN  r.ret.id = favorites[i].doc.id /\ r.S = Store

\* C5: after a successful deleteProperty(id, ownerId) the store holds no
\* Favorite and no Recommendation whose propertyId is id.
C5_DeleteCascades ==
    \A u \in UserIds, id \in CallIds :
        LET r == deleteProperty(Store, id, u)
        IN  r.ret =>
                /\ \A i \in DOMAIN r.S.favorites :
                       r.S.favorites[i].doc.propertyId # id
                /\ \A i \in DOMAIN r.S.recommendations :
                       r.S.recommendations[i].doc.propertyId # id

\* C6: once a property has been deleted, in every later state the favorites
\* and the received recommendations of every user who was linked to it hold
\* no property with that id.
C6_DeletedNeverListed ==
    \A e \in deleted :
        /\ e.id \notin ListedIds(getUserFavorites(Store, e.user))
        /\ e.id \notin ListedIds(getUserRecommendations(Store, e.user))

\* C7: updateProperty and deleteProperty called for a property that is
\* absent or owned by another user fail and leave properties, favorites and
\* recommendations as they were; the PATCH and DELETE routes leave the cache
\* as it was too.
C7_OnlyOwnerWrites ==
    \A tok \in IssuedTokens, id \in CallIds :
        NotOwnedBy(tok.id, id) =>
            /\ \A body \in PatchBodies :
                   LET r == updateProperty(Store, id, body, tok.id, now)
                       a == Route_updateProperty(Store, cache, Some(tok),
                                                 Some(id), body, now)
                   IN  /\ r.ret = None /\ r.S = Store
                       /\ a.status = 404 /\ a.S = Store /\ a.C = cache
            /\ LET r == deleteProperty(Store, id, tok.id)
                   a == Route_deleteProperty(Store, cache, Some(tok), Some(id))
               IN  /\ ~r.ret /\ r.S = Store
                   /\ a.status = 404 /\ a.S = Store /\ a.C = cache

\* a user asks to delete the property of another user, the cache and the
\* favorites holding entries: the answer is 404
C7_Witness ==
    \E tok \in IssuedTokens, i \in DOMAIN properties :
        /\ properties[i].doc.createdBy \in UserIds \ {tok.id}
        /\ NotOwnedBy(tok.id, properties[i].doc.id)
        /\ favorites # <<>>
        /\ cache # EmptyCache
        /\ Route_deleteProperty(Store, cache, Some(tok),
                                Some(properties[i].doc.id)).status = 404

\* C8: for update and delete, a requester gets the same result for an id
\* that does not exist as for a property owned by somebody else: null/false
\* from storage, the same status and message from the API.
C8_SameSignal ==
    \A tok \in IssuedTokens, missing \in CallIds, foreign \in CallIds :
        (Absent(missing) /\ ~Absent(foreign) /\ NotOwnedBy(tok.id, foreign)) =>
            /\ \A body \in PatchBodies :
                   LET rm == updateProperty(Store, missing, body, tok.id, now)
                       rf == updateProperty(Store, foreign, body, tok.id, now)
                       am == Route_updateProperty(Store, cache, Some(tok),
                                                  Some(missing), body, now)
                       af == Route_updateProperty(Store, cache, Some(tok),
                                                  Some(foreign), body, now)
                   IN  /\ rm.ret = None /\ rf.ret = None
                       /\ rm.thrown = rf.thrown
                       /\ am.status = af.status /\ am.status = 404
                       /\ am.body = af.body
            /\ LET rm == deleteProperty(Store, missing, tok.id)
                   rf == deleteProperty(Store, foreign, tok.id)
                   am == Route_deleteProperty(Store, cache, Some(tok),
                                              Some(missing))
                   af == Route_deleteProperty(Store, cache, Some(tok),
                                              Some(foreign))
               IN  /\ rm.ret = rf.ret /\ ~rm.ret
                   /\ am.status = af.status /\ am.status = 404
                   /\ am.body = af.body

\* a user patches an id nobody holds and the property of another user: both
\* are answered 404
C8_Witness ==
    \E tok \in IssuedTokens, i \in DOMAIN properties :
        /\ properties[i].doc.createdBy \in UserIds \ {tok.id}
        /\ NotOwnedBy(tok.id, properties[i].doc.id)
        /\ Absent(currentId)
        /\ Route_updateProperty(Store, cache, Some(tok), Some(currentId),
                                [price |-> <<"9">>], now).status = 404
        /\ Route_updateProperty(Store, cache, Some(tok),
                                Some(properties[i].doc.id),
                                [price |-> <<"9">>], now).status = 404

\* C9: createRecommendation with an email that matches no stored user returns
\* null and leaves the recommendations and the id counter as they were.
C9_UnknownRecipient ==
    \A tok \in IssuedTokens, email \in Emails \cup {UnknownEmail},
       id \in CallIds :
        getUserByEmail(Store, email) = None =>
            LET r == createRecommendation(Store, tok.id, email, id)
                a == Route_recommend(Store, cache, Some(tok), Some(email),
                                     Some(id))
            IN  /\ r.ret = None
                /\ r.S.recommendations = recommendations
                /\ r.S.currentId = currentId
                /\ a.status = 400 /\ a.S = Store

\* a stored property is recommended to an email nobody registered, while a
\* recommendation is stored already: the answer is 400
C9_Witness ==
    \E tok \in IssuedTokens, i \in DOMAIN properties :
        /\ recommendations # <<>>
        /\ getUserByEmail(Store, UnknownEmail) = None
        /\ Route_recommend(Store, cache, Some(tok), Some(UnknownEmail),
                           Some(properties[i].doc.id)).status = 400

\* C10: createRecommendation with a propertyId that references no stored
\* property returns null, surfaced as a 400, and creates no Recommendation,
\* even when the recipient email resolves to a user.
C10_UnknownProperty ==
    \A tok \in IssuedTokens, email \in Emails, id \in CallIds :
        Absent(id) =>
            LET r == createRecommendation(Store, tok.id, email, id)
                a == Route_recommend(Store, cache, Some(tok), Some(email),
                                     Some(id))
            IN  /\ r.ret = None
                /\ r.S.recommendations = recommendations
                /\ a.status = 400

(***************************************************************************)
(* Properties of registration, login and tokens.                           *)
(***************************************************************************)
\* the emails a register or login body may carry: the stored ones, one that
\* differs from a stored one in case only, and one nobody registers
sUpperEmail == "A@x.com"
BodyEmails == Emails \cup {sUpperEmail, UnknownEmail}

\* the stored users whose email is exactly this one
UsersWithEmail(S, email) ==
    {i \in DOMAIN S.users : S.users[i].doc.email = email}

\* C11: registering with an email that exactly equals a stored user's email
\* fails and changes nothing; registering with an email not yet present
\* succeeds and stores exactly one new user, with that email.
C11_RegisterUnique ==
    \A email \in BodyEmails, password \in Passwords :
        LET a == Route_register(Store, cache,
                     [name |-> "n", email |-> email, password |-> password])
        IN  IF UsersWithEmail(Store, email) # {}
            THEN a.status = 400 /\ a.S = Store /\ a.C = cache
            ELSE /\ a.status = 201
                 /\ Len(a.S.users) = Len(users) + 1
                 /\ SubSeq(a.S.users, 1, Len(users)) = users
                 /\ a.S.users[Len(users) + 1].doc.email = email
                 /\ Cardinality(UsersWithEmail(a.S, email)) = 1
                 /\ a.S.properties = properties
                 /\ a.S.favorites = favorites
                 /\ a.S.recommendations = recommendations

\* a@x.com is stored: registering it again is refused, registering A@x.com
\* is accepted
C11_Witness ==
    /\ UsersWithEmail(Store, "a@x.com") # {}
    /\ UsersWithEmail(Store, sUpperEmail) = {}
    /\ properties # <<>>
    /\ Route_register(Store, cache, [name |-> "n", email |-> "a@x.com",
                                     password |-> sPw]).status = 400
    /\ Route_register(Store, cache, [name |-> "n", email |-> sUpperEmail,
                                     password |-> sPw]).status = 201
\* C12: login succeeds exactly when a user with the given email exists and the
\* given password is the one that user registered with; the token of a
\* successful login verifies to that user's {id, email}; every other login
\* (wrong password, unknown email) is answered 401 and carries no token.
\* Stated over a registration followed by a login, for every pair of
\* registered and given password.
AuthPasswords == {sPw, sOtherPw, sLongPw, sLongPw2}

C12_LoginExact ==
    \A email \in BodyEmails, registered \in AuthPasswords, given \in AuthPasswords :
        LET reg == Route_register(Store, cache,
                       [name |-> "n", email |-> email, password |-> registered])
            a == Route_login(reg.S, reg.C, Some(email), Some(given))
            b == Route_login(Store, cache, Some(email), Some(given))
        IN  /\ reg.status = 201 =>
                 /\ (a.status = 200) <=> (given = registered)
                 /\ a.status = 200 =>
                        verifyToken(a.body.token)
                          = Some([id |-> reg.body.user.id, email |-> email])
                 /\ a.status # 200 =>
                        a.status = 401 /\ a.body = Message("Invalid credentials")
                 /\ a.S = reg.S
            /\ UsersWithEmail(Store, email) = {} =>
                 b.status = 401 /\ b.body = Message("Invalid credentials")
\* the tokens the claim calls invalid or expired
InvalidTokens == {Some(ForgedToken), Some(ExpiredToken)}

\* the answer is 401 and the store is as it was
Refused(a) == a.status = 401 /\ a.S = Store

\* C13: every protected operation (create, update, delete property; add,
\* remove, list favorites; recommend; list received recommendations; current
\* user) called with an invalid or expired bearer token answers 401 and
\* changes no stored state; a token verifies only if it carries the server's
\* signature and is less than 7 days old.
C13_BadTokenRefused ==
    /\ \A tok \in InvalidTokens :
        /\ \A data \in SpecData : Refused(Route_createProperty(Store, cache, tok, data, now))
        /\ \A id \in PathIds, body \in PatchBodies :
               Refused(Route_updateProperty(Store, cache, tok, id, body, now))
        /\ \A id \in PathIds :
               /\ Refused(Route_deleteProperty(Store, cache, tok, id))
               /\ Refused(Route_addFavorite(Store, cache, tok, id))
               /\ Refused(Route_removeFavorite(Store, cache, tok, id))
               /\ \A email \in RecipientEmails :
                      Refused(Route_recommend(Store, cache, tok, email, id))
        /\ Refused(Route_getFavorites(Store, cache, tok))
        /\ Refused(Route_getRecommendations(Store, cache, tok))
        /\ Refused(Route_me(Store, cache, tok))
    /\ \A tok \in RequestTokens \ {None} :
           verifyToken(The(tok)) # None =>
               The(tok).sig = "JWT_SECRET" /\ now - The(tok).iat < ExpiresIn
(***************************************************************************)
(* Properties of the cache.                                                *)
(***************************************************************************)
\* C14: the cache is transparent: after any sequence of requests handled one
\* at a time, GET /api/v1/properties and GET /api/v1/properties/:id of the
\* cached routes answer what the routes that call storage directly answer.
C14_CacheTransparent ==
    /\ \A query \in SpecQueries :
           LET a == Route_getProperties(Store, cache, query)
               b == Direct_getProperties(Store, cache, query)
           IN  a.status = b.status /\ a.body = b.body
    /\ \A id \in KnownIds \cup {currentId} :
           LET a == Route_getProperty(Store, cache, id)
               b == Direct_getProperty(Store, cache, id)
           IN  a.status = b.status /\ a.body = b.body
\* C15: no stale reads: however the steps of concurrent list reads and
\* property writes interleave, a read that began after a write had completed
\* never answers with a result computed from the store as it was before that
\* write.
C15_NoStaleRead ==
    \A r \in Readers :
        race.reads[r].pc = "respond" => race.reads[r].ver >= race.reads[r].began
\* C16: every successful create, update or delete of a property through the
\* API leaves the whole cache empty, list keys and single-property keys
\* alike, when its success response is sent.
C16_WriteFlushesAll ==
    \A tok \in RequestTokens :
        /\ \A data \in SpecData :
               LET a == Route_createProperty(Store, cache, tok, data, now)
               IN  a.status = 201 => a.C.byId = {} /\ a.C.list = {}
        /\ \A id \in PathIds :
               /\ \A body \in PatchBodies :
                      LET a == Route_updateProperty(Store, cache, tok, id, body, now)
                      IN  a.status = 200 => a.C.byId = {} /\ a.C.list = {}
               /\ LET a == Route_deleteProperty(Store, cache, tok, id)
                  IN  a.status = 204 => a.C.byId = {} /\ a.C.list = {}

\* a list page and a single property are cached, and a PATCH and a DELETE
\* of the property succeed
C16_Witness ==
    /\ cache.byId # {}
    /\ cache.list # {}
    /\ \E tok \in RequestTokens, id \in PathIds :
           /\ Route_deleteProperty(Store, cache, tok, id).status = 204
           /\ \E body \in PatchBodies :
                  Route_updateProperty(Store, cache, tok, id, body, now).status = 200
(***************************************************************************)
(* Properties of favorites and recommendations, continued.                 *)
(***************************************************************************)
\* the positions of the Favorite records of the pair (u, id) in a collection
PairAt(F, u, id) ==
    {i \in DOMAIN F : F[i].doc.userId = u /\ F[i].doc.propertyId = id}

\* the Favorite records of every other pair, in order
OtherPairs(F, u, id) == SelectIdx(F, (DOMAIN F) \ PairAt(F, u, id), 1)

\* C17: removeFavorite(userId, propertyId) returns false (the route: 404)
\* exactly when no Favorite record of the pair exists, and then leaves the
\* store as it was; when the pair exists it removes one record of that pair
\* and no Favorite of any other pair.
C17_RemoveFavorite ==
    /\ \A u \in UserIds \cup {NoSuchUser}, id \in CallIds :
           LET r == removeFavorite(Store, u, id)
               n == Cardinality(PairAt(favorites, u, id))
           IN  IF n = 0
               THEN ~r.ret /\ r.S = Store
               ELSE /\ r.ret
                    /\ Cardinality(PairAt(r.S.favorites, u, id)) = n - 1
                    /\ Len(r.S.favorites) = Len(favorites) - 1
                    /\ OtherPairs(r.S.favorites, u, id) = OtherPairs(favorites, u, id)
                    /\ r.S = [Store EXCEPT !.favorites = r.S.favorites]
    /\ \A t \in IssuedTokens, id \in CallIds :
           LET a == Route_removeFavorite(Store, cache, Some(t), Some(id))
           IN  /\ (a.status = 404) <=> (PairAt(favorites, t.id, id) = {})
               /\ (a.status = 204) <=> (PairAt(favorites, t.id, id) # {})
               /\ a.status = 404 => a.S = Store

\* two users hold a favorite each, one of a property the other has not
\* favorited, and a removal succeeds
C17_Witness ==
    \E u \in UserIds, v \in UserIds, id \in CallIds :
        /\ u # v
        /\ PairAt(favorites, u, id) # {}
        /\ PairAt(favorites, v, id) = {}
        /\ OtherPairs(favorites, u, id) # <<>>
        /\ removeFavorite(Store, u, id).ret
        /\ \E t \in IssuedTokens :
               /\ t.id = u
               /\ Route_removeFavorite(Store, cache, Some(t), Some(id)).status = 204
\* the ids of the stored properties user u holds a Favorite record of
Favorited(u) ==
    {properties[i].doc.id : i \in
        {k \in DOMAIN properties :
            PairAt(favorites, u, properties[k].doc.id) # {}}}

\* C18: getUserFavorites(u) returns exactly the properties user u holds a
\* Favorite record of, each once and joined with its owner, and never a
\* property favorited only by another user; when u has favorited one
\* property and nothing else, the list is that one property.
C18_FavoritesExact ==
    \A u \in UserIds :
        LET list == getUserFavorites(Store, u)
        IN  /\ ListedIds(list) = Favorited(u)
            /\ Len(list) = Cardinality(Favorited(u))
            /\ \A k \in DOMAIN list :
                   list[k].owner.id = list[k].property.createdBy
\* the property ids of the Recommendation records addressed to user u, in
\* order, for the records whose property is stored
Recommended(S, u) ==
    LET R == S.recommendations
        mine == SelectIdx(R,
                  {i \in DOMAIN R :
                      /\ R[i].doc.toUserId = u
                      /\ \E k \in DOMAIN S.properties :
                            S.properties[k].doc.id = R[i].doc.propertyId}, 1)
    IN  [i \in DOMAIN mine |-> mine[i].doc.propertyId]

ListedSeq(list) == [k \in DOMAIN list |-> list[k].property.id]

\* C19: getUserRecommendations(u) returns exactly the properties of the
\* Recommendation records whose toUserId is u; toUserId is the user the
\* recipient email resolved to when the record was created, so a
\* recommendation from A to B's email shows in B's list and leaves A's list
\* as it was (A may recommend to A's own email).
C19_RecommendationsExact ==
    /\ \A u \in UserIds :
           ListedSeq(getUserRecommendations(Store, u)) = Recommended(Store, u)
    /\ \A from \in UserIds, email \in Emails, id \in CallIds :
           LET r == createRecommendation(Store, from, email, id)
               to == UsersWithEmail(Store, email)
           IN  r.ret # None =>
                 /\ to # {}
                 /\ \A i \in to :
                      LET b == users[i].doc.id
                      IN  /\ The(r.ret).toUserId = b
                          /\ ListedSeq(getUserRecommendations(r.S, b))
                               = Recommended(r.S, b)
                          /\ b # from =>
                               getUserRecommendations(r.S, from)
                                 = getUserRecommendations(Store, from)
(***************************************************************************)
(* Sentinel filter values.                                                 *)
(***************************************************************************)
\* the filter fields that take the sentinel "all", and the one that takes "any"
AllFields == {"city", "state", "country", "type", "listingType"}
AnyFields == {"furnished"}

\* the queries the sentinel is added to
SentinelBases == SpecQueries \cup QueryQueries

\* C20: a filter field set to its no-constraint sentinel ("all", "any") gives
\* the getProperties result of the same query without that field, for every
\* field that takes a sentinel and every stored set of properties.
C20_SentinelIsAbsent ==
    \A query \in SentinelBases :
        LET absent == RouteFilters(query)
        IN  /\ \A f \in AllFields :
                   getProperties(Store, [absent EXCEPT ![f] = Some(sAll)])
                     = getProperties(Store, [absent EXCEPT ![f] = None])
            /\ \A f \in AnyFields :
                   getProperties(Store, [absent EXCEPT ![f] = Some(sAny)])
                     = getProperties(Store, [absent EXCEPT ![f] = None])
(***************************************************************************)
(* Defaults of the listing and of createProperty.                          *)
(***************************************************************************)
\* page and page size as the contract reads them off a query
AskedPage(query) == IF query.page \in {None, Some(0)} THEN 1 ELSE The(query.page)
AskedLimit(query) ==
    IF query.limit \in {None, Some(0)} THEN 12 ELSE The(query.limit)

\* a page of the result is the slice skip..skip+limit of the whole result
IsPageOf(result, query) ==
    LET page == AskedPage(query)
        limit == AskedLimit(query)
        skip == (page - 1) * limit
        total == Len(properties)
        whole == getProperties(Store,
                    [query EXCEPT !.page = Some(1), !.limit = Some(total + 1)])
    IN  /\ result.page = page
        /\ result.total = total
        /\ result.totalPages = CeilDiv(total, limit)
        /\ result.properties = Slice(whole.properties, skip, skip + limit)
        /\ Len(result.properties) = Min({limit, Max({0, total - skip})})

\* C21: with the page unspecified getProperties uses page 1, with the page
\* size unspecified (absent or 0) it uses 12 items per page, and
\* skip = (page-1)*limit; for the storage call and for the list route.
C21_PageDefaults ==
    \A query \in PageQueries :
        /\ IsPageOf(getProperties(Store, query), query)
        /\ IsPageOf(Route_getProperties(Store, EmptyCache, query).body, query)
\* the filters the list route passes to storage
ListingFilters == {RouteFilters(query) : query \in SpecQueries \cup QueryQueries}

\* C22: a matching property whose createdBy names no stored user is still
\* listed, with the placeholder owner "Unknown", and is not dropped: the
\* number of items on a page is min(limit, max(0, total - (page-1)*limit)).
C22_OwnerlessListed ==
    \A filters \in ListingFilters :
        LET r == getProperties(Store, filters)
            limit == The(filters.limit)
            skip == (The(filters.page) - 1) * limit
        IN  /\ Len(r.properties) = Min({limit, Max({0, r.total - skip})})
            /\ \A k \in DOMAIN r.properties :
                   r.properties[k].property.createdBy \notin UserIds
                       => r.properties[k].owner.name = "Unknown"
\* the InsertProperty values createProperty is given: each optional field
\* set or left unset
DefaultsData ==
    {[BaseData EXCEPT !.listedBy = l, !.colorTheme = c, !.isVerified = v,
                      !.rating = r] :
        l \in {None, Some(<<"A","g","e","n","t">>)},
        c \in {None, Some(<<"#","0","0","0">>)},
        v \in {None, Some(TRUE), Some(FALSE)},
        r \in {None, Some(<<"4",".","5">>)}}

\* the record p carries the defaults for what data left unset and the
\* values data supplied
HasDefaults(p, data) ==
    /\ p.isVerified = (data.isVerified = Some(TRUE))
    /\ p.rating = data.rating
    /\ p.listedBy = IF data.listedBy = None THEN Some(sOwner) ELSE data.listedBy
    /\ p.colorTheme = IF data.colorTheme = None THEN Some(sDefaultColor)
                      ELSE data.colorTheme
    /\ \A f \in {"title", "price", "areaSqFt", "bedrooms", "bathrooms", "city",
                  "state", "country", "type", "furnished", "listingType"} :
           p[f] = data[f]

\* C23: createProperty persists the new record with the defaults for the
\* fields the caller left unset (isVerified false, rating absent, listedBy
\* "Owner", colorTheme "#6ab45e") and the supplied fields as given: both the
\* record it returns and the record read back say so.
C23_CreateDefaults ==
    \A u \in UserIds, data \in DefaultsData :
        LET r == createProperty(Store, data, u, now)
            back == getProperty(r.S, currentId)
        IN  /\ HasDefaults(r.ret, data)
            /\ back # None
            /\ HasDefaults(The(back).property, data)
(***************************************************************************)
(* Properties of concurrent calls.                                         *)
(***************************************************************************)
\* C24: user emails are unique in every reachable state, also when register
\* requests for one email run concurrently and their steps (the
\* getUserByEmail check, the hashing, the insert) interleave.
C24_EmailsUnique ==
    \A i, j \in DOMAIN users :
        i # j => users[i].doc.email # users[j].doc.email
\* every stored record, of the four collections
AllRecords == users \o properties \o favorites \o recommendations

PropertyKeys(P) == {P[i].key : i \in DOMAIN P}

\* C26: a step never removes a user, and every property a step adds to the
\* store has createdBy equal to the id of a user stored at that moment; the
\* create route answers 401 to every request whose token was not issued
\* for a stored user.
C26_CreatedByStoredUser ==
    [][/\ UserIds \subseteq {users'[i].doc.id : i \in DOMAIN users'}
       /\ \A i \in DOMAIN properties' :
             properties'[i].key \notin PropertyKeys(properties) =>
                properties'[i].doc.createdBy \in UserIds
       /\ \A tok \in RequestTokens \ {Some(t) : t \in IssuedTokens} :
             Route_createProperty(Store, cache, tok, BaseData, now).status
                = 401]_vars
\* two users are registered and a property of the second one is stored,
\* created at this instant and never updated; a request with a forged
\* token is answered 401
C26_Witness ==
    /\ Cardinality(UserIds) = MaxUsers
    /\ \E i \in DOMAIN properties :
          /\ properties[i].doc.createdBy = Max(UserIds)
          /\ properties[i].doc.id = properties[i].key
          /\ properties[i].doc.updatedAt = properties[i].doc.createdAt
    /\ \E data \in SpecData :
          Route_createProperty(Store, cache, Some(ForgedToken), data,
                               now).status = 401
\* the fields of a property record a payload does not name, updatedAt aside
Untouched(p, body) == (DOMAIN p \ DOMAIN body) \ {"updatedAt"}

\* properties P have pairwise different ids
UniqueIds(P) == \A i, j \in DOMAIN P : i # j => P[i].doc.id # P[j].doc.id

\* C27: when PATCH /api/v1/properties/:id succeeds for its owner, the stored
\* record keeps its id, createdBy and createdAt, every field the payload
\* does not name is unchanged (updatedAt aside), no other record changes
\* and property ids stay unique.
C27_UpdateKeepsIdentity ==
    \A tok \in IssuedTokens, id \in CallIds, body \in PatchBodies :
        LET a == Route_updateProperty(Store, cache, Some(tok), Some(id), body,
                                      now)
            Q == a.S.properties
        IN  (a.status = 200 /\ UniqueIds(properties)) =>
               /\ DOMAIN Q = DOMAIN properties
               /\ \A i \in DOMAIN Q :
                     /\ Q[i].key = properties[i].key
                     /\ Q[i].doc.id = properties[i].doc.id
                     /\ Q[i].doc.createdBy = properties[i].doc.createdBy
                     /\ Q[i].doc.createdAt = properties[i].doc.createdAt
                     /\ \A f \in Untouched(properties[i].doc, body) :
                           Q[i].doc[f] = properties[i].doc[f]
                     /\ properties[i].doc.id # id => Q[i] = properties[i]
               /\ UniqueIds(Q)
(***************************************************************************)
(* Favorites and recommendations against the stored properties.            *)
(***************************************************************************)
\* C28: when removeFavorite(u, p) returns true, getUserFavorites(u), asked
\* right after it, does not list property p, whatever addFavorite calls
\* came before.
C28_RemovedNotListed ==
    \A u \in UserIds, p \in CallIds :
        LET r == removeFavorite(Store, u, p)
        IN  r.ret => p \notin ListedIds(getUserFavorites(r.S, u))
\* C29: in every reachable state, every stored Favorite and every stored
\* Recommendation has a propertyId under which a stored property is found.
C29_LinksResolve ==
    /\ \A i \in DOMAIN favorites :
          getProperty(Store, favorites[i].doc.propertyId) # None
    /\ \A i \in DOMAIN recommendations :
          getProperty(Store, recommendations[i].doc.propertyId) # None
\* C30: whenever an updateProperty finishes with a non-null result, at the
\* step of its write a record with the id was stored, the record then
\* carries the payload, and every field the payload does not name
\* (updatedAt aside) is what it was just before the write, so that what
\* another update wrote between this update's read and its write stays.
C30_UpdateWritesLive ==
    [][\A s \in Callers :
          LET call == race.calls[s]
              d == The(call.data)
              hit == {i \in DOMAIN properties : properties[i].doc.id = d.id}
          IN  (/\ call.op = "updateProperty"
               /\ call.pc \in {"run", "write"}
               /\ race'.calls[s].pc = "done"
               /\ race'.calls[s].ret # None) =>
                 /\ hit # {}
                 /\ DOMAIN properties' = DOMAIN properties
                 /\ \A i \in hit :
                       /\ \A f \in DOMAIN The(d.body) :
                             properties'[i].doc[f] = The(d.body)[f]
                       /\ \A f \in Untouched(properties[i].doc, The(d.body)) :
                             properties'[i].doc[f] = properties[i].doc[f]]_vars

====
